---- MODULE Spec2Model ----
(***************************************************************************)
(* A model of the cognitive rhythm and state controller of sam/core:       *)
(*   - VSPEngine (sam/core/vsp_engine.py): perturbation value, history,    *)
(*     trend and the hysteretic, debounced mode machine;                   *)
(*   - PSP (sam/core/psp.py): the state packet with its working memory,    *)
(*     momentum, checksums, signature and (de)serialisation;               *)
(*   - RAACycle (sam/core/raa_cycle.py): the Reflect/Abstract/Act phase    *)
(*     scheduler paced by the cognitive mode;                              *)
(*   - IdentityCore (sam/core/identity_core.py): the persistent self-model *)
(*     with its integrity hash;                                            *)
(*   - CatalystDeliberationProtocol (sam/core/cdp.py): the deliberation    *)
(*     sessions and their status.                                          *)
(*                                                                         *)
(* Real numbers are fixed-point integers in units of 1/10000 (0.3 is 3000, *)
(* 1.0 is 10000).  Times are integer milliseconds.  Optional values are    *)
(* sequences of length 0 (None) or 1 (a value).                            *)
(***************************************************************************)
EXTENDS Integers, Sequences, FiniteSets, TLC

VARIABLES
    \* ---- VSPEngine ----
    current_mode,       \* self.current_mode
    last_mode_change,   \* self.last_mode_change (ms)
    vsp_history,        \* self.vsp_history
    schema_basis,       \* self.schema_basis (Optional vector)
    hysteresis,         \* self.hysteresis (HysteresisConfig)
    now,                \* the wall clock read by time.time() (ms)
    last,               \* the last engine call: operation, arguments, result
    \* ---- PSP ----
    psp,                \* the packet: a record of the fields of class PSP
    psp_last,           \* the last packet call: operation, argument, result
    wm_log,             \* the items passed to add_working_memory_item, in order
    \* ---- RAACycle ----
    current_phase,      \* self.current_phase
    last_phase_change,  \* self.last_phase_change (ms)
    cycle_count,        \* self.cycle_count
    raa_last,           \* the last scheduler call: operation, argument, result
    \* ---- IdentityCore ----
    identity,           \* the identity core: a record of the fields of the class
    id_last,            \* the last identity call: operation, argument, result
    \* ---- CatalystDeliberationProtocol ----
    active_sessions,    \* self.active_sessions: session id -> CDPPacket
    deliberation_history, \* self.deliberation_history: session id -> steps
    cdp_last,           \* the last protocol call: operation, argument, result
    \* ---- the caller ----
    held_input          \* the value a caller has settled on for get_mode, and
                        \* the mode at that moment (Optional)

vspVars == <<current_mode, last_mode_change, vsp_history, schema_basis,
             hysteresis, now, last>>

pspVars == <<psp, psp_last, wm_log>>

raaVars == <<current_phase, last_phase_change, cycle_count, raa_last>>

idVars == <<identity, id_last>>

cdpVars == <<active_sessions, deliberation_history, cdp_last>>

envVars == <<held_input>>

vars == <<vspVars, pspVars, raaVars, idVars, cdpVars, envVars>>

\* Variables of the other components, left alone by every engine call.
outsideVSP == <<pspVars, raaVars, idVars, cdpVars, envVars>>
\* Variables of the other components, left alone by every packet call.
outsidePSP == <<vspVars, raaVars, idVars, cdpVars, envVars>>
\* Variables of the other components, left alone by every scheduler call
\* (the clock and the engine's call record are among the engine's).
outsideRAA == <<vspVars, pspVars, idVars, cdpVars, envVars>>

(***************************************************************************)
(* Bounds of the model.                                                    *)
(***************************************************************************)
\* The clock runs from 0 to MaxNow in steps of 500 ms.
MaxNow == 3000
\* rolling_window of the modelled HysteresisConfig (the dataclass default is 10).
RollingWindow == 2

None == <<>>
Some(x) == <<x>>
IsNone(o) == Len(o) = 0
Val(o) == o[1]

(***************************************************************************)
(* Mode, Thresholds, HysteresisConfig, LensingConfig                       *)
(***************************************************************************)
Mode == {"idle", "flow", "deep", "crisis"}

Thresholds ==
    [idle_to_flow   |-> 3000,
     flow_to_idle   |-> 2000,
     flow_to_deep   |-> 6000,
     deep_to_flow   |-> 5000,
     deep_to_crisis |-> 8000,
     crisis_to_deep |-> 7000]

\* HysteresisConfig(debounce_ms, trend_decay, rolling_window); debounce_ms
\* 1000 and trend_decay 0.95 are the defaults, debounce_ms 0 disables the gate.
HysteresisConfig(d) ==
    [debounce_ms |-> d, trend_decay |-> 9500, rolling_window |-> RollingWindow]

HysteresisChoices == {HysteresisConfig(1000), HysteresisConfig(0)}

LensingConfig ==
    [emotion_weight |-> 3000, causal_weight |-> 2000, temporal_weight |-> 1000]

(***************************************************************************)
(* Fixed-point arithmetic and vectors                                      *)
(***************************************************************************)
Abs(a) == IF a < 0 THEN 0 - a ELSE a
Max(a, b) == IF a >= b THEN a ELSE b
Min(a, b) == IF a <= b THEN a ELSE b
\* Division rounding toward zero, as the quotient of two reals is rounded.
Quot(a, b) == IF a >= 0 THEN a \div b ELSE 0 - ((0 - a) \div b)
\* Product of two fixed-point numbers.
Mul(a, b) == Quot(a * b, 10000)

RECURSIVE SumSeq(_)
SumSeq(s) == IF s = <<>> THEN 0 ELSE Head(s) + SumSeq(Tail(s))

\* Integer square root (exact on the perfect squares the inputs produce).
ISqrt(n) == CHOOSE r \in 0..n : r * r <= n /\ (r + 1) * (r + 1) > n

\* np.linalg.norm
Norm(vec) == ISqrt(SumSeq([i \in 1..Len(vec) |-> vec[i] * vec[i]]))

\* VSPEngine._normalize_vector: a zero vector is returned as it is.  The
\* result is in fixed-point units; the raw zero vector is zero in any unit.
_normalize_vector(vec) ==
    LET norm == Norm(vec)
    IN  IF norm = 0 THEN vec
        ELSE [i \in 1..Len(vec) |-> Quot(vec[i] * 10000, norm)]

\* The inner product of two 1-D arrays of the same length.
Dot(a, b) == SumSeq([i \in 1..Len(a) |-> Mul(a[i], b[i])])

\* An inner product over the common prefix of the two arrays (as a loop over
\* zip(a, b) computes it), which never fails.
np_dot_common_prefix(a, b) ==
    Some(SumSeq([i \in 1..Min(Len(a), Len(b)) |-> Mul(a[i], b[i])]))

\* np.dot of two 1-D arrays: the inner product, or None for the ValueError
\* numpy raises when the lengths differ.
np_dot(a, b) == IF Len(a) # Len(b) THEN None ELSE Some(Dot(a, b))

(***************************************************************************)
(* VSPEngine._compute_lensing_modifier                                     *)
(***************************************************************************)
_compute_lensing_modifier(emotional_lensing, causal_context, temporal_context) ==
    LET emo == IF ~IsNone(emotional_lensing) /\ Len(Val(emotional_lensing)) >= 2
               THEN LET valence == Val(emotional_lensing)[1]
                        arousal == Val(emotional_lensing)[2]
                        emotion_modifier == Quot(valence + arousal, 2)
                    IN  Mul(LensingConfig.emotion_weight, emotion_modifier)
               ELSE 0
        cau == IF ~IsNone(causal_context) /\ Len(Val(causal_context)) > 0
               THEN LET causal_weight == Quot(SumSeq(Val(causal_context)),
                                              Len(Val(causal_context)))
                    IN  Mul(LensingConfig.causal_weight, causal_weight)
               ELSE 0
        tem == IF ~IsNone(temporal_context)
               THEN Mul(LensingConfig.temporal_weight, Val(temporal_context))
               ELSE 0
    IN  emo + cau + tem

(***************************************************************************)
(* VSPEngine._update_history                                               *)
(***************************************************************************)
\* An _update_history that drops the newest entry (pop() for pop(0)).
_update_history_drops_newest(history, vsp, window) ==
    LET appended == Append(history, vsp)
    IN  IF Len(appended) > window THEN SubSeq(appended, 1, window) ELSE appended

_update_history(history, vsp, window) ==
    LET appended == Append(history, vsp)
    IN  IF Len(appended) > window THEN Tail(appended) ELSE appended

(***************************************************************************)
(* VSPEngine.compute_vsp as a function of its arguments (a record a) and   *)
(* the engine state: the outcome is [kind, value, history], with kind      *)
(* "return" or "raise".                                                    *)
(***************************************************************************)
\* A compute_vsp that records the 0.8 of the no-reference return in the
\* history, as the computed values are.
no_reference_recorded(history, window) ==
    [kind |-> "return", value |-> 8000,
     history |-> _update_history(history, 8000, window)]

\* compute_vsp, lines 121-123: no reference passed and none stored.
no_reference(history, window) ==
    [kind |-> "return", value |-> 8000, history |-> history]

compute_vsp(a, basis, history, window) ==
    IF Len(a.input_vector) = 0
    THEN [kind |-> "return", value |-> 0, history |-> history]
    ELSE IF IsNone(a.schema_basis) /\ IsNone(basis)
    THEN no_reference(history, window)
    ELSE LET schema_raw == IF ~IsNone(a.schema_basis) THEN Val(a.schema_basis)
                           ELSE Val(basis)
             input_vec == _normalize_vector(a.input_vector)
             schema_vec == _normalize_vector(schema_raw)
             dot == np_dot(input_vec, schema_vec)
         IN  IF IsNone(dot)
             \* the ValueError of np.dot leaves compute_vsp at line 130
             THEN [kind |-> "raise", value |-> 0, history |-> history]
             ELSE LET cosine_sim == Val(dot)
                      phase_similarity == Max(0, cosine_sim)
                      lensing_modifier == _compute_lensing_modifier(
                          a.emotional_lensing, a.causal_context, a.temporal_context)
                      raw == Mul(10000 - phase_similarity,
                                 10000 + Mul(LensingConfig.emotion_weight,
                                             Abs(lensing_modifier)))
                      vsp == Max(0, Min(10000, raw))
                  IN  [kind |-> "return", value |-> vsp,
                       history |-> _update_history(history, vsp, window)]

(***************************************************************************)
(* VSPEngine.get_vsp_trend                                                 *)
(***************************************************************************)
RECURSIVE TrendSums(_, _, _, _, _)
\* The loop over reversed(self.vsp_history): returns <<trend, total_weight>>.
TrendSums(history, weight, trend, total_weight, decay) ==
    IF history = <<>> THEN <<trend, total_weight>>
    ELSE LET n == Len(history)
         IN  TrendSums(SubSeq(history, 1, n - 1), Mul(weight, decay),
                       trend + history[n] * weight, total_weight + weight, decay)

\* A trend that gives the weight 1 to the oldest entry.
get_vsp_trend_oldest_first(history, decay) ==
    IF history = <<>> THEN 0
    ELSE LET n == Len(history)
             s == TrendSums([i \in 1..n |-> history[n + 1 - i]], 10000, 0, 0, decay)
         IN  IF s[2] > 0 THEN Quot(s[1], s[2]) ELSE 0

get_vsp_trend(history, decay) ==
    IF history = <<>> THEN 0
    ELSE LET s == TrendSums(history, 10000, 0, 0, decay)
         IN  IF s[2] > 0 THEN Quot(s[1], s[2]) ELSE 0

(***************************************************************************)
(* VSPEngine._get_target_mode and VSPEngine._should_transition             *)
(***************************************************************************)
\* A cascade evaluated from the lowest threshold up.
_get_target_mode_low_first(vsp) ==
    IF vsp < Thresholds.idle_to_flow THEN "idle"
    ELSE IF vsp >= Thresholds.idle_to_flow THEN "flow"
    ELSE IF vsp >= Thresholds.flow_to_deep THEN "deep"
    ELSE "crisis"

_get_target_mode(vsp) ==
    IF vsp >= Thresholds.deep_to_crisis THEN "crisis"
    ELSE IF vsp >= Thresholds.flow_to_deep THEN "deep"
    ELSE IF vsp >= Thresholds.idle_to_flow THEN "flow"
    ELSE "idle"

\* A gate with one threshold per pair: leaving a mode is tested against the
\* threshold that enters it.
_should_transition_symmetric(mode, vsp, target_mode) ==
    IF mode = "crisis" THEN vsp < Thresholds.deep_to_crisis
    ELSE IF target_mode = "crisis" THEN vsp >= Thresholds.deep_to_crisis
    ELSE IF mode = "idle" /\ target_mode = "flow" THEN vsp >= Thresholds.idle_to_flow
    ELSE IF mode = "flow" /\ target_mode = "idle" THEN vsp < Thresholds.idle_to_flow
    ELSE IF mode = "flow" /\ target_mode = "deep" THEN vsp >= Thresholds.flow_to_deep
    ELSE IF mode = "deep" /\ target_mode = "flow" THEN vsp < Thresholds.flow_to_deep
    ELSE FALSE

\* A gate that lets the pairs without a threshold of their own through.
_should_transition_any_pair(mode, vsp, target_mode) ==
    IF mode = "crisis" THEN vsp <= Thresholds.crisis_to_deep
    ELSE IF target_mode = "crisis" THEN vsp >= Thresholds.deep_to_crisis
    ELSE IF mode = "idle" /\ target_mode = "flow" THEN vsp >= Thresholds.idle_to_flow
    ELSE IF mode = "flow" /\ target_mode = "idle" THEN vsp <= Thresholds.flow_to_idle
    ELSE IF mode = "flow" /\ target_mode = "deep" THEN vsp >= Thresholds.flow_to_deep
    ELSE IF mode = "deep" /\ target_mode = "flow" THEN vsp <= Thresholds.deep_to_flow
    ELSE TRUE

\* A gate in which Crisis is left as soon as the target is another mode.
_should_transition_crisis_exit(mode, vsp, target_mode) ==
    IF mode = "crisis" THEN TRUE
    ELSE IF target_mode = "crisis" THEN vsp >= Thresholds.deep_to_crisis
    ELSE IF mode = "idle" /\ target_mode = "flow" THEN vsp >= Thresholds.idle_to_flow
    ELSE IF mode = "flow" /\ target_mode = "idle" THEN vsp <= Thresholds.flow_to_idle
    ELSE IF mode = "flow" /\ target_mode = "deep" THEN vsp >= Thresholds.flow_to_deep
    ELSE IF mode = "deep" /\ target_mode = "flow" THEN vsp <= Thresholds.deep_to_flow
    ELSE FALSE

_should_transition(mode, vsp, target_mode) ==
    IF mode = "crisis" THEN vsp <= Thresholds.crisis_to_deep
    ELSE IF target_mode = "crisis" THEN vsp >= Thresholds.deep_to_crisis
    ELSE IF mode = "idle" /\ target_mode = "flow" THEN vsp >= Thresholds.idle_to_flow
    ELSE IF mode = "flow" /\ target_mode = "idle" THEN vsp <= Thresholds.flow_to_idle
    ELSE IF mode = "flow" /\ target_mode = "deep" THEN vsp >= Thresholds.flow_to_deep
    ELSE IF mode = "deep" /\ target_mode = "flow" THEN vsp <= Thresholds.deep_to_flow
    ELSE FALSE

\* A debounce test that compares milliseconds with seconds.
InDebounceSeconds(current_time, last_change, debounce_ms) ==
    current_time - last_change < debounce_ms \div 1000

\* The debounce test of get_mode: current_time - last_mode_change is less
\* than debounce_ms / 1000.0 seconds.
InDebounce(current_time, last_change, debounce_ms) ==
    current_time - last_change < debounce_ms

\* The mode next to `mode` on the way to `target_mode`.
TowardMode(mode, target_mode) ==
    LET rank == [idle |-> 1, flow |-> 2, deep |-> 3, crisis |-> 4]
        order == <<"idle", "flow", "deep", "crisis">>
    IN  IF rank[target_mode] > rank[mode] THEN order[rank[mode] + 1]
        ELSE IF rank[target_mode] < rank[mode] THEN order[rank[mode] - 1]
        ELSE mode

\* A get_mode that moves one mode at a time toward the target.
get_mode_result_stepwise(mode, last_change, current_time, debounce_ms, vsp) ==
    IF InDebounce(current_time, last_change, debounce_ms)
    THEN <<mode, last_change>>
    ELSE LET target_mode == _get_target_mode(vsp)
         IN  IF target_mode # mode
             THEN <<TowardMode(mode, target_mode), current_time>>
             ELSE <<mode, last_change>>

\* A get_mode that stamps last_mode_change on every evaluated call.
get_mode_result_restamps(mode, last_change, current_time, debounce_ms, vsp) ==
    IF InDebounce(current_time, last_change, debounce_ms)
    THEN <<mode, last_change>>
    ELSE LET target_mode == _get_target_mode(vsp)
         IN  IF target_mode # mode /\ _should_transition(mode, vsp, target_mode)
             THEN <<target_mode, current_time>>
             ELSE <<mode, current_time>>

\* get_mode as a function of the state: <<mode, last_mode_change>> after it.
get_mode_result(mode, last_change, current_time, debounce_ms, vsp) ==
    IF InDebounce(current_time, last_change, debounce_ms)
    THEN <<mode, last_change>>
    ELSE LET target_mode == _get_target_mode(vsp)
         IN  IF target_mode # mode /\ _should_transition(mode, vsp, target_mode)
             THEN <<target_mode, current_time>>
             ELSE <<mode, last_change>>



(***************************************************************************)
(* Engine inputs                                                           *)
(***************************************************************************)
\* Values passed to get_mode: every threshold and a point in every zone.
VspInputs == {0, 1000, 1500, 2000, 2500, 3000, 4000, 5000, 5500, 6000,
              6500, 7000, 7500, 8000, 9000, 10000}

\* Observation vectors (raw components): the empty vector, vectors of norm 5
\* in two dimensions and one in three dimensions, and the zero vector.
InputVectors == {<<>>, <<3, 4>>, <<4, 3>>, <<-3, -4>>, <<0, 0, 5>>, <<0, 0>>}
\* Reference vectors stored with update_schema_basis, or passed to compute_vsp.
BasisVectors == {<<3, 4>>, <<0, 0>>}
BasisArgs == {None, Some(<<3, 4>>)}

Lensing(e, c, t) ==
    [emotional_lensing |-> e, causal_context |-> c, temporal_context |-> t]

\* Lensing inputs: none, each kind alone (the causal mapping by its values),
\* and an emotional vector too short to be used.
LensingArgs == {Lensing(None, None, None),
                Lensing(Some(<<10000, 5000>>), None, None),
                Lensing(Some(<<10000>>), None, None),
                Lensing(None, Some(<<7000, 3000>>), None),
                Lensing(None, None, Some(5000))}

ComputeArgs ==
    {[input_vector |-> v, schema_basis |-> b,
      emotional_lensing |-> l.emotional_lensing,
      causal_context |-> l.causal_context,
      temporal_context |-> l.temporal_context] :
        v \in InputVectors, b \in BasisArgs, l \in LensingArgs}

\* The compute_vsp arguments without any lensing input.
NoLensingArgs ==
    {a \in ComputeArgs : /\ IsNone(a.emotional_lensing)
                         /\ IsNone(a.causal_context)
                         /\ IsNone(a.temporal_context)}

NoCall == [op |-> "init", arg |-> <<>>, ret |-> <<>>]

(***************************************************************************)
(* VSPEngine.__init__                                                      *)
(***************************************************************************)
VSPInit ==
    /\ now = 0
    /\ hysteresis \in HysteresisChoices
    /\ current_mode = "idle"
    /\ last_mode_change = now
    /\ vsp_history = <<>>
    /\ schema_basis = None
    /\ last = NoCall

(***************************************************************************)
(* The clock                                                               *)
(***************************************************************************)
Tick ==
    /\ now + 500 <= MaxNow
    /\ now' = now + 500
    /\ UNCHANGED <<current_mode, last_mode_change, vsp_history, schema_basis,
                   hysteresis, last>>
    /\ UNCHANGED outsideVSP

(***************************************************************************)
(* VSPEngine operations                                                    *)
(***************************************************************************)
\* last.arg keeps the observation and the explicit reference of the call.
ComputeVspCall(a) ==
    \E out \in {compute_vsp(a, schema_basis, vsp_history, hysteresis.rolling_window)} :
        /\ vsp_history' = out.history
        /\ last' = [op |-> "compute_vsp",
                    arg |-> <<a.input_vector, a.schema_basis>>,
                    ret |-> <<out.kind, out.value>>]
        /\ UNCHANGED <<current_mode, last_mode_change, schema_basis,
                       hysteresis, now>>
        /\ UNCHANGED outsideVSP

ComputeVsp == \E a \in ComputeArgs : ComputeVspCall(a)

\* A get_mode that also records the value it is given.
GetModeCallRecords(vsp) ==
    LET r == get_mode_result(current_mode, last_mode_change, now,
                             hysteresis.debounce_ms, vsp)
    IN  /\ current_mode' = r[1]
        /\ last_mode_change' = r[2]
        /\ vsp_history' = _update_history(vsp_history, vsp, hysteresis.rolling_window)
        /\ last' = [op |-> "get_mode", arg |-> <<vsp>>, ret |-> <<r[1]>>]
        /\ UNCHANGED <<schema_basis, hysteresis, now>>
        /\ UNCHANGED outsideVSP

GetModeCall(vsp) ==
    LET r == get_mode_result(current_mode, last_mode_change, now,
                             hysteresis.debounce_ms, vsp)
    IN  /\ current_mode' = r[1]
        /\ last_mode_change' = r[2]
        /\ last' = [op |-> "get_mode", arg |-> <<vsp>>, ret |-> <<r[1]>>]
        /\ UNCHANGED <<vsp_history, schema_basis, hysteresis, now>>
        /\ UNCHANGED outsideVSP

GetMode == \E vsp \in VspInputs : GetModeCall(vsp)

\* VSPEngine.set_hysteresis with a configuration of any rolling_window up
\* to RollingWindow.
SetHysteresisCall(h) ==
    /\ hysteresis' = h
    /\ last' = [op |-> "set_hysteresis", arg |-> <<h.rolling_window>>, ret |-> <<>>]
    /\ UNCHANGED <<current_mode, last_mode_change, vsp_history, schema_basis, now>>
    /\ UNCHANGED outsideVSP

SetHysteresis ==
    \E w \in 1..RollingWindow :
        SetHysteresisCall([HysteresisConfig(1000) EXCEPT !.rolling_window = w])

GetVspTrend ==
    /\ last' = [op |-> "get_vsp_trend", arg |-> <<>>,
                ret |-> <<get_vsp_trend(vsp_history, hysteresis.trend_decay)>>]
    /\ UNCHANGED <<current_mode, last_mode_change, vsp_history, schema_basis,
                   hysteresis, now>>
    /\ UNCHANGED outsideVSP

\* VSPEngine.get_stats as a function of the state.
get_stats(mode, history, decay, current_time, last_change) ==
    [current_mode |-> mode,
     current_vsp |-> IF history # <<>> THEN history[Len(history)] ELSE 0,
     vsp_trend |-> get_vsp_trend(history, decay),
     vsp_history_length |-> Len(history),
     time_since_mode_change |-> current_time - last_change]

GetStats ==
    /\ last' = [op |-> "get_stats", arg |-> <<>>,
                ret |-> <<get_stats(current_mode, vsp_history,
                                    hysteresis.trend_decay, now, last_mode_change)>>]
    /\ UNCHANGED <<current_mode, last_mode_change, vsp_history, schema_basis,
                   hysteresis, now>>
    /\ UNCHANGED outsideVSP

\* An update_schema_basis that starts the history afresh, as reset does.
UpdateSchemaBasisCallClearsHistory(basis) ==
    /\ schema_basis' = Some(basis)
    /\ vsp_history' = <<>>
    /\ last' = [op |-> "update_schema_basis", arg |-> <<basis>>, ret |-> <<>>]
    /\ UNCHANGED <<current_mode, last_mode_change, hysteresis, now>>
    /\ UNCHANGED outsideVSP

UpdateSchemaBasisCall(basis) ==
    /\ schema_basis' = Some(basis)
    /\ last' = [op |-> "update_schema_basis", arg |-> <<basis>>, ret |-> <<>>]
    /\ UNCHANGED <<current_mode, last_mode_change, vsp_history, hysteresis, now>>
    /\ UNCHANGED outsideVSP

UpdateSchemaBasis == \E basis \in BasisVectors : UpdateSchemaBasisCall(basis)

\* A reset that keeps the stored reference.
ResetKeepsReference ==
    /\ current_mode' = "idle"
    /\ last_mode_change' = now
    /\ vsp_history' = <<>>
    /\ last' = [op |-> "reset", arg |-> <<>>, ret |-> <<>>]
    /\ UNCHANGED <<schema_basis, hysteresis, now>>
    /\ UNCHANGED outsideVSP

Reset ==
    /\ current_mode' = "idle"
    /\ last_mode_change' = now
    /\ vsp_history' = <<>>
    /\ schema_basis' = None
    /\ last' = [op |-> "reset", arg |-> <<>>, ret |-> <<>>]
    /\ UNCHANGED <<hysteresis, now>>
    /\ UNCHANGED outsideVSP

(***************************************************************************)
(* PSP: data model                                                         *)
(***************************************************************************)
\* Capacity of the working memory: the max_items of _prune_working_memory
\* (50 in the source), scaled down.
MaxItems == 2
\* add_working_memory_item is called at most this many times.
MaxAdds == 3
\* advance_cycle advances the phase at most this many times.
MaxCycles == 7
\* The autobiographical memory keeps this many memories (100 in the source),
\* scaled down.
MemoryLimit == 1
\* Each counter of the identity core (evidence_count, practice_count,
\* interaction_count) and the reinforcements of a default value are followed
\* up to this value.
MaxUses == 1
\* CatalystDeliberationProtocol is constructed with these values of max_depth
\* and max_iterations (5 and 10 by default).
max_depth == 2
max_iterations == 2
\* start_deliberation creates at most this many sessions.
MaxSessions == 1
\* execute_deliberation is called while the history of the session stays
\* within this many steps.
MaxSteps == 4
\* update_momentum is given a vsp_value only while rolling_avg is below this.
MaxRollingAvg == 400

PSPModes == {"idle", "flow", "deep", "crisis"}

\* WeightVector.total_weight
total_weight(w) ==
    Mul(4000, w.recency) + Mul(4000, w.perturbation) + Mul(2000, w.connectivity)

WorkingMemoryItem(id, type, r, p, c) ==
    [id |-> id, type |-> type,
     weight |-> [recency |-> r, perturbation |-> p, connectivity |-> c],
     expires_at |-> None]

\* Items a caller adds: total weights 0.6, 0.2, 0.2 (a tie) and 0.1.
Items == {WorkingMemoryItem("a", "qualia_ref", 10000, 5000, 0),
          WorkingMemoryItem("b", "draft_schema", 5000, 0, 0),
          WorkingMemoryItem("c", "context", 0, 5000, 0),
          WorkingMemoryItem("d", "qualia_ref", 0, 0, 5000)}

\* MomentumVector: the 512 components of direction are abridged to two.
MomentumVector(m) ==
    [dimensions |-> 512, magnitude |-> m, direction |-> <<0, 0>>, confidence |-> 0]

\* Momentum() with its defaults.
Momentum ==
    [schema_drift_vector |-> MomentumVector(0),
     vsp_trend |-> [rolling_avg |-> 0, decay |-> 9500],
     emotional_state_vector |-> <<0, 0, 0, 0, 0, 0, 0, 0>>,
     raa_rhythm_signature |-> ""]

(***************************************************************************)
(* PSP._update_checksums.  blake3 over the orjson encoding is modelled as  *)
(* an injective digest of the encoded structure: the structure itself,     *)
(* tagged.                                                                 *)
(***************************************************************************)
\* A kv digest taken over the working memory as well.
kv_data_with_working_memory(p) ==
    <<"kv", p.psp_version, p.timestamp, p.instance_id, p.schema_hash,
      p.momentum, p.mode, p.working_memory>>

kv_data(p) ==
    <<"kv", p.psp_version, p.timestamp, p.instance_id, p.schema_hash,
      p.momentum, p.mode>>

wm_data(p) == <<"wm", p.working_memory>>

\* Checksums in which the kv digest also covers the signature field.
_update_checksums_with_sign(p) ==
    [p EXCEPT !.checksums = [kv |-> <<kv_data(p), p.sign>>, wm |-> wm_data(p)]]

_update_checksums(p) ==
    [p EXCEPT !.checksums = [kv |-> kv_data(p), wm |-> wm_data(p)]]

(***************************************************************************)
(* PSP._prune_working_memory: sorted(..., reverse=True) is stable, so      *)
(* items of equal total_weight keep their relative order.                  *)
(***************************************************************************)
RECURSIVE InsertDescBeforeEqual(_, _)
\* x placed before the elements of the sorted s whose weight is its own.
InsertDescBeforeEqual(s, x) ==
    IF s = <<>> THEN <<x>>
    ELSE IF total_weight(Head(s).weight) > total_weight(x.weight)
         THEN <<Head(s)>> \o InsertDescBeforeEqual(Tail(s), x)
         ELSE <<x>> \o s

RECURSIVE InsertDesc(_, _)
\* x placed after every element of the sorted s whose weight is >= its own.
InsertDesc(s, x) ==
    IF s = <<>> THEN <<x>>
    ELSE IF total_weight(Head(s).weight) >= total_weight(x.weight)
         THEN <<Head(s)>> \o InsertDesc(Tail(s), x)
         ELSE <<x>> \o s

RECURSIVE SortedDesc(_)
SortedDesc(s) ==
    IF s = <<>> THEN <<>>
    ELSE InsertDesc(SortedDesc(SubSeq(s, 1, Len(s) - 1)), s[Len(s)])

\* A prune that truncates without sorting: the newest items are dropped.
_prune_working_memory_unsorted(wm, max_items) ==
    IF Len(wm) <= max_items THEN wm
    ELSE SubSeq(wm, 1, max_items)

\* A prune that removes the lightest items and keeps the others in place.
_prune_working_memory_in_place(wm, max_items) ==
    IF Len(wm) <= max_items THEN wm
    ELSE LET kept == SubSeq(SortedDesc(wm), 1, max_items)
         IN  SelectSeq(wm, LAMBDA x : \E i \in 1..Len(kept) : kept[i] = x)

_prune_working_memory(wm, max_items) ==
    IF Len(wm) <= max_items THEN wm
    ELSE SubSeq(SortedDesc(wm), 1, max_items)

(***************************************************************************)
(* PSP.__init__ and the mutating methods, as functions of the packet       *)
(***************************************************************************)
\* PSP(**data): the fields as given (checksums included), then
\* _update_checksums.
PSP__init__(data) == _update_checksums(data)

\* PSP() with every default.
NewPSP ==
    PSP__init__([psp_version |-> "1.1", timestamp |-> "t0", instance_id |-> "i1",
                 schema_hash |-> "", working_memory |-> <<>>,
                 momentum |-> Momentum, mode |-> "idle",
                 checksums |-> [kv |-> "", wm |-> ""],
                 sign |-> [sig |-> None, pub |-> None]])

add_working_memory_item(p, item) ==
    _update_checksums(
        [p EXCEPT !.working_memory = _prune_working_memory(Append(@, item), MaxItems)])

\* A trend update with the two weights exchanged.
rolling_avg_update_swapped(decay, rolling_avg, vsp_value) ==
    Mul(10000 - decay, rolling_avg) + Mul(decay, vsp_value)

\* The new rolling_avg of update_momentum (psp.py:162-165):
\* decay * rolling_avg + (1 - decay) * vsp_value.
rolling_avg_update(decay, rolling_avg, vsp_value) ==
    Mul(decay, rolling_avg) + Mul(10000 - decay, vsp_value)

\* update_momentum: a is [schema_drift, vsp_value, emotional_state,
\* raa_signature], each optional.  A MomentumVector is always truthy; an
\* empty list and an empty string are not.
update_momentum(p, a) ==
    LET m0 == p.momentum
        m1 == IF ~IsNone(a.schema_drift)
              THEN [m0 EXCEPT !.schema_drift_vector = Val(a.schema_drift)] ELSE m0
        m2 == IF ~IsNone(a.vsp_value)
              THEN [m1 EXCEPT !.vsp_trend.rolling_avg =
                        rolling_avg_update(m1.vsp_trend.decay,
                                           m1.vsp_trend.rolling_avg,
                                           Val(a.vsp_value))]
              ELSE m1
        m3 == IF ~IsNone(a.emotional_state) /\ Len(Val(a.emotional_state)) > 0
              THEN [m2 EXCEPT !.emotional_state_vector = Val(a.emotional_state)]
              ELSE m2
        m4 == IF ~IsNone(a.raa_signature) /\ Val(a.raa_signature) # ""
              THEN [m3 EXCEPT !.raa_rhythm_signature = Val(a.raa_signature)]
              ELSE m3
    IN  _update_checksums([p EXCEPT !.momentum = m4])

\* A set_mode without the membership test.
set_mode_unvalidated(p, mode) ==
    <<"ok", _update_checksums([p EXCEPT !.mode = mode])>>

\* A set_mode that assigns the mode and leaves the checksums as they were.
set_mode_stale_checksums(p, mode) ==
    IF mode \notin {"idle", "flow", "deep", "crisis"}
    THEN <<"raise", p>>
    ELSE <<"ok", [p EXCEPT !.mode = mode]>>

\* set_mode: <<"raise", p>> for an invalid mode, else <<"ok", p'>>.
set_mode(p, mode) ==
    IF mode \notin {"idle", "flow", "deep", "crisis"}
    THEN <<"raise", p>>
    ELSE <<"ok", _update_checksums([p EXCEPT !.mode = mode])>>

(***************************************************************************)
(* Signing (sam/utils/crypto.py): Ed25519 as an ideal signature scheme.    *)
(***************************************************************************)
\* 32-byte private keys are valid; anything else makes from_private_bytes raise.
ValidKeys == {"k1"}
PublicKey(private_key) == <<"pub", private_key>>

\* A sign_data that hands back the public key of another key pair than the
\* one it signed with.
sign_data_other_public_key(data, private_key) ==
    <<[signer |-> private_key, data |-> data], PublicKey("other")>>

\* sign_data(data, private_key) -> (signature, public_key)
sign_data(data, private_key) ==
    <<[signer |-> private_key, data |-> data], PublicKey(private_key)>>

\* crypto.verify_signature(data, signature, public_key)
crypto_verify_signature(data, signature, public_key) ==
    /\ public_key = PublicKey(signature.signer)
    /\ signature.data = data

\* A signed dictionary that leaves the mode out.
sig_data_without_mode(p) ==
    [psp_version |-> p.psp_version, timestamp |-> p.timestamp,
     instance_id |-> p.instance_id, schema_hash |-> p.schema_hash,
     working_memory |-> p.working_memory, momentum |-> p.momentum,
     mode |-> "", checksums |-> [kv |-> "", wm |-> p.checksums.wm]]

\* self.dict() without the 'sign' entry
sig_data(p) ==
    [psp_version |-> p.psp_version, timestamp |-> p.timestamp,
     instance_id |-> p.instance_id, schema_hash |-> p.schema_hash,
     working_memory |-> p.working_memory, momentum |-> p.momentum,
     mode |-> p.mode, checksums |-> p.checksums]

\* sign_psp: <<"raise", p>> when the key is rejected, else <<"ok", p'>>.
sign_psp(p, private_key) ==
    IF private_key \notin ValidKeys THEN <<"raise", p>>
    ELSE LET s == sign_data(sig_data(p), private_key)
         IN  <<"ok", _update_checksums(
                  [p EXCEPT !.sign = [sig |-> Some(s[1]), pub |-> Some(s[2])]])>>

\* PSP.verify_signature
verify_signature(p) ==
    IF IsNone(p.sign.sig) \/ IsNone(p.sign.pub) THEN FALSE
    ELSE crypto_verify_signature(sig_data(p), Val(p.sign.sig), Val(p.sign.pub))

\* PSP.verify_checksums: <<result, p'>>; the packet is left with the
\* recomputed checksums.
verify_checksums(p) ==
    LET current_kv == p.checksums.kv
        current_wm == p.checksums.wm
        q == _update_checksums(p)
    IN  <<(current_kv = q.checksums.kv) /\ (current_wm = q.checksums.wm), q>>

\* PSP.to_dict: self.dict(), a dictionary of the same fields (the timestamp
\* stays a datetime).
to_dict(p) ==
    [psp_version |-> p.psp_version, timestamp |-> p.timestamp,
     instance_id |-> p.instance_id, schema_hash |-> p.schema_hash,
     working_memory |-> p.working_memory, momentum |-> p.momentum,
     mode |-> p.mode, checksums |-> p.checksums, sign |-> p.sign]

\* A from_dict that leaves a timestamp that is not a string to the default
\* factory of the field.
from_dict_new_timestamp(data) == PSP__init__([data EXCEPT !.timestamp = "t1"])

\* PSP.from_dict: cls(**data).
from_dict(data) == PSP__init__(data)

\* PSP.clone
clone(p) == from_dict(to_dict(p))

(***************************************************************************)
(* PSP: inputs.  The Core sets are the inputs of the specification that    *)
(* includes signing, where the state also holds the signed content.        *)
(***************************************************************************)
ModeArgs == PSPModes \cup {"invalid_mode"}
CoreModeArgs == {"idle", "flow", "invalid_mode"}

KeyArgs == ValidKeys \cup {"short"}

LoadItems == {WorkingMemoryItem("a", "qualia_ref", 10000, 5000, 0),
              WorkingMemoryItem("d", "qualia_ref", 0, 0, 5000)}

MomentumArg(d, v, e, r) ==
    [schema_drift |-> d, vsp_value |-> v, emotional_state |-> e, raa_signature |-> r]

MomentumArgs ==
    {MomentumArg(d, v, e, r) :
        d \in {None, Some(MomentumVector(5000))},
        v \in {None, Some(5000)},
        e \in {None, Some(<<>>), Some(<<5000, 0, 0, 0, 0, 0, 0, 0>>)},
        r \in {None, Some(""), Some("r")}}

LoadMomentumArgs ==
    {MomentumArg(None, v, None, r) : v \in {None, Some(5000)}, r \in {None, Some("r")}}

CoreMomentumArgs ==
    {MomentumArg(None, None, None, r) : r \in {None, Some("r")}}

\* What is altered in a serialized packet before it is loaded again.
ContentAlterations == {"mode", "item", "momentum", "instance_id", "schema_hash"}
Alterations == {"none"} \cup ContentAlterations
CoreAlterations == {"none", "mode"}

\* The dictionary d with one content field altered, the stored checksums
\* left as they are.
Alter(d, alt) ==
    CASE alt = "none" -> d
      [] alt = "mode" ->
            [d EXCEPT !.mode = IF @ = "idle" THEN "flow" ELSE "idle"]
      [] alt = "item" ->
            [d EXCEPT !.working_memory =
                IF @ = <<>> THEN <<WorkingMemoryItem("d", "qualia_ref", 0, 0, 5000)>>
                ELSE Tail(@)]
      [] alt = "momentum" ->
            [d EXCEPT !.momentum.raa_rhythm_signature = IF @ = "" THEN "r" ELSE ""]
      [] alt = "instance_id" ->
            [d EXCEPT !.instance_id = IF @ = "i1" THEN "i2" ELSE "i1"]
      [] alt = "schema_hash" ->
            [d EXCEPT !.schema_hash = IF @ = "" THEN "h" ELSE ""]

PSPNoCall == [op |-> "init", arg |-> "", ret |-> ""]

PSPInit ==
    /\ psp = NewPSP
    /\ psp_last = PSPNoCall
    /\ wm_log = <<>>

(***************************************************************************)
(* RAACycle (sam/core/raa_cycle.py)                                        *)
(***************************************************************************)
RAAPhase == {"reflect", "abstract", "act"}

\* base_cycle_ms and mode_multipliers of RAACycle() with its defaults.
BaseCycleMs == 1000

ModeMultipliers ==
    [idle |-> 20000, flow |-> 10000, deep |-> 5000, crisis |-> 2000]

\* The modes passed to advance_cycle: the four modes and a string that is
\* not a key of mode_multipliers.
RaaModeArgs == {"idle", "flow", "deep", "crisis", "unknown"}

\* A duration that ignores the mode.
_get_cycle_duration_base_only(mode) == BaseCycleMs

\* RAACycle._get_cycle_duration: int(base_cycle_ms * multiplier), the
\* multiplier being 1.0 for a mode without an entry.
_get_cycle_duration(mode) ==
    LET multiplier == IF mode \in DOMAIN ModeMultipliers
                      THEN ModeMultipliers[mode] ELSE 10000
    IN  Quot(BaseCycleMs * multiplier, 10000)

\* A phase step that skips Act.
_advance_phase_skips_act(phase) ==
    IF phase = "reflect" THEN "abstract" ELSE "reflect"

\* A phase step with Act as a terminal phase.
_advance_phase_stays_in_act(phase) ==
    IF phase = "reflect" THEN "abstract" ELSE "act"

\* RAACycle._advance_phase
_advance_phase(phase) ==
    IF phase = "reflect" THEN "abstract"
    ELSE IF phase = "abstract" THEN "act"
    ELSE "reflect"

\* Elapsed milliseconds since the last phase change.
Elapsed(current_time, last_change) == current_time - last_change

\* A progress without the upper clamp.
get_phase_progress_unclamped(current_time, last_change) ==
    Quot(Elapsed(current_time, last_change) * 10000, _get_cycle_duration("flow"))

\* RAACycle.get_phase_progress
get_phase_progress(current_time, last_change) ==
    Min(10000, Quot(Elapsed(current_time, last_change) * 10000,
                    _get_cycle_duration("flow")))

RaaNoCall == [op |-> "init", arg |-> "", ret |-> ""]

\* RAACycle.__init__
RAAInit ==
    /\ current_phase = "reflect"
    /\ last_phase_change = now
    /\ cycle_count = 0
    /\ raa_last = RaaNoCall

\* An advance_cycle that counts its calls, not the phase changes.
AdvanceCycleCallCountsCalls(mode) ==
    LET due == Elapsed(now, last_phase_change) >= _get_cycle_duration(mode)
    IN  /\ cycle_count < MaxCycles
        /\ current_phase' = IF due THEN _advance_phase(current_phase)
                            ELSE current_phase
        /\ last_phase_change' = IF due THEN now ELSE last_phase_change
        /\ cycle_count' = cycle_count + 1
        /\ raa_last' = [op |-> "advance_cycle", arg |-> mode,
                        ret |-> current_phase']
        /\ UNCHANGED outsideRAA

\* RAACycle.advance_cycle(current_mode, vsp_value); vsp_value is not used.
\* The counter is followed up to MaxCycles.
AdvanceCycleCall(mode) ==
    LET cycle_duration == _get_cycle_duration(mode)
        due == Elapsed(now, last_phase_change) >= cycle_duration
    IN  /\ due => cycle_count < MaxCycles
        /\ current_phase' = IF due THEN _advance_phase(current_phase)
                            ELSE current_phase
        /\ last_phase_change' = IF due THEN now ELSE last_phase_change
        /\ cycle_count' = IF due THEN cycle_count + 1 ELSE cycle_count
        /\ raa_last' = [op |-> "advance_cycle", arg |-> mode,
                        ret |-> current_phase']
        /\ UNCHANGED outsideRAA

AdvanceCycle == \E mode \in RaaModeArgs : AdvanceCycleCall(mode)

GetPhaseProgress ==
    /\ raa_last' = [op |-> "get_phase_progress", arg |-> "",
                    ret |-> get_phase_progress(now, last_phase_change)]
    /\ UNCHANGED <<current_phase, last_phase_change, cycle_count>>
    /\ UNCHANGED outsideRAA

\* A reset that keeps the counter.
RaaResetKeepsCount ==
    /\ current_phase' = "reflect"
    /\ last_phase_change' = now
    /\ raa_last' = [op |-> "reset", arg |-> "", ret |-> ""]
    /\ UNCHANGED cycle_count
    /\ UNCHANGED outsideRAA

\* RAACycle.reset
RaaReset ==
    /\ current_phase' = "reflect"
    /\ last_phase_change' = now
    /\ cycle_count' = 0
    /\ raa_last' = [op |-> "reset", arg |-> "", ret |-> ""]
    /\ UNCHANGED outsideRAA

\* The longest duration an elapsed time is compared with: the Idle period.
Horizon == _get_cycle_duration("idle")

\* A timestamp after the origin of the time axis has moved 500 ms forward;
\* one that is Horizon or more in the past stays where it is.
Rebased(current_time, stamp) ==
    IF current_time - stamp >= Horizon THEN stamp ELSE stamp - 500

\* 500 ms pass at the end of the window 0..MaxNow: the clock keeps its
\* reading and the timestamps move back instead, so that every elapsed time
\* below Horizon grows by 500 ms.
TickOn ==
    /\ now + 500 > MaxNow
    /\ last_phase_change' = Rebased(now, last_phase_change)
    /\ last_mode_change' = Rebased(now, last_mode_change)
    /\ UNCHANGED <<current_mode, vsp_history, schema_basis, hysteresis, now, last>>
    /\ UNCHANGED <<current_phase, cycle_count, raa_last>>
    /\ UNCHANGED <<pspVars, idVars, cdpVars, envVars>>

(***************************************************************************)
(* IdentityCore (sam/core/identity_core.py)                                *)
(*                                                                         *)
(* Of each entity the fields that an operation reads or writes are kept;   *)
(* descriptions, types and creation times are fixed at creation.  Of the   *)
(* timestamps of the entities, last_recalled of a memory is kept (it is a  *)
(* sort key).  The defaults are scaled down to the first of each kind.     *)
(***************************************************************************)
\* The outsideVSP-style frame of the identity operations.
outsideID == <<vspVars, pspVars, raaVars, cdpVars, envVars>>

\* _initialize_default_values, _initialize_default_traits,
\* _initialize_default_capabilities
DefaultValues == <<[name |-> "curiosity", strength |-> 8000, stability |-> 9000]>>
DefaultTraits == [c \in {"openness"} |-> [value |-> 7000, confidence |-> 8000, evidence_count |-> 0]]
DefaultCapabilities == [k \in {"reasoning"} |-> [proficiency |-> 8000, practice_count |-> 0]]
NoEntries == [k \in {} |-> 0]

\* The dictionary serialised by _update_integrity; orjson.dumps(...).hex()
\* is one-to-one, so the hash is the data itself.
integrity_data(id) ==
    [values |-> id.values,
     personality_traits |-> id.personality_traits,
     capabilities |-> id.capabilities,
     relationships |-> id.relationships,
     autobiographical_memories |-> id.autobiographical_memories]

\* IdentityCore._update_integrity; last_updated, which it also writes and
\* which is not part of the integrity data, is not kept.
_update_integrity(id, current_time) ==
    [id EXCEPT !.integrity_hash = integrity_data(id)]

\* IdentityCore() with every default.
NewIdentity ==
    _update_integrity([values |-> DefaultValues,
                       personality_traits |-> DefaultTraits,
                       capabilities |-> DefaultCapabilities,
                       relationships |-> NoEntries,
                       autobiographical_memories |-> <<>>,
                       integrity_hash |-> <<>>], 0)

IdNoCall == [op |-> "init", arg |-> <<>>, ret |-> <<>>]

IdentityInit ==
    /\ identity = NewIdentity
    /\ id_last = IdNoCall

\* The sort key of a memory: importance, then last_recalled when by_recency.
MemoryKey(m, by_recency) ==
    m.importance * 100000 + (IF by_recency THEN m.last_recalled ELSE 0)

RECURSIVE InsertMemoryDesc(_, _, _)
InsertMemoryDesc(s, x, by_recency) ==
    IF s = <<>> THEN <<x>>
    ELSE IF MemoryKey(Head(s), by_recency) >= MemoryKey(x, by_recency)
         THEN <<Head(s)>> \o InsertMemoryDesc(Tail(s), x, by_recency)
         ELSE <<x>> \o s

RECURSIVE SortedMemoriesDesc(_, _)
\* list.sort(key=..., reverse=True): stable.
SortedMemoriesDesc(s, by_recency) ==
    IF s = <<>> THEN <<>>
    ELSE InsertMemoryDesc(SortedMemoriesDesc(SubSeq(s, 1, Len(s) - 1), by_recency),
                          s[Len(s)], by_recency)

\* The index of the first value with the given name, 0 when there is none.
FindValue(values, name) ==
    IF \E i \in 1..Len(values) : values[i].name = name
    THEN CHOOSE i \in 1..Len(values) :
            /\ values[i].name = name
            /\ \A j \in 1..(i - 1) : values[j].name # name
    ELSE 0

\* IdentityCore.add_value
AddValue ==
    \E v \in {[name |-> "test", strength |-> 5000, stability |-> 8000]} :
        /\ Len(identity.values) < 2
        /\ /\ identity' = _update_integrity([identity EXCEPT !.values = Append(@, v)], now)
           /\ id_last' = [op |-> "add_value", arg |-> <<v.name>>, ret |-> <<>>]
           /\ UNCHANGED outsideID

\* IdentityCore.reinforce_value with Value.reinforce
ReinforceValue ==
    \E value_name \in {"curiosity", "none"} :
        LET i == FindValue(identity.values, value_name)
        IN  IF i = 0
            THEN /\ identity' = identity
                 /\ id_last' = [op |-> "reinforce_value", arg |-> <<value_name>>, ret |-> <<FALSE>>]
                 /\ UNCHANGED outsideID
            ELSE /\ identity.values[i].strength < DefaultValues[1].strength + 10 * MaxUses
                 /\ /\ identity' = _update_integrity(
                                    [identity EXCEPT !.values[i].strength =
                                    Min(10000, @ + Mul(100, 10000 - identity.values[i].stability))],
                                    now)
                    /\ id_last' = [op |-> "reinforce_value", arg |-> <<value_name>>, ret |-> <<TRUE>>]
                    /\ UNCHANGED outsideID

\* IdentityCore.update_personality_trait
UpdatePersonalityTrait ==
    \E category \in {"extraversion"}, value \in {2000} :
        LET traits == identity.personality_traits
            old == IF category \in DOMAIN traits THEN traits[category]
                   ELSE [value |-> 0, confidence |-> 5000, evidence_count |-> 0]
            trait == [value |-> value, confidence |-> 5000,
                      evidence_count |-> old.evidence_count + 1]
        IN  /\ old.evidence_count < MaxUses
            /\ /\ identity' = _update_integrity(
                               [identity EXCEPT !.personality_traits =
                               [c \in DOMAIN traits \cup {category} |->
                               IF c = category THEN trait ELSE traits[c]]], now)
               /\ id_last' = [op |-> "update_personality_trait", arg |-> <<category, value>>, ret |-> <<>>]
               /\ UNCHANGED outsideID

\* IdentityCore.add_capability
AddCapability ==
    \E name \in {"coding"} :
        LET caps == identity.capabilities
            capability == [proficiency |-> 5000, practice_count |-> 0]
        IN  /\ identity' = _update_integrity(
                            [identity EXCEPT !.capabilities =
                            [k \in DOMAIN caps \cup {name} |->
                            IF k = name THEN capability ELSE caps[k]]], now)
            /\ id_last' = [op |-> "add_capability", arg |-> <<name>>, ret |-> <<>>]
            /\ UNCHANGED outsideID

\* IdentityCore.practice_capability with the default improvement 0.01
PracticeCapability ==
    \E capability_name \in {"reasoning", "none"} :
        IF capability_name \notin DOMAIN identity.capabilities
        THEN /\ identity' = identity
             /\ id_last' = [op |-> "practice_capability", arg |-> <<capability_name>>, ret |-> <<FALSE>>]
             /\ UNCHANGED outsideID
        ELSE /\ identity.capabilities[capability_name].practice_count < MaxUses
             /\ /\ identity' = _update_integrity(
                                [identity EXCEPT
                                !.capabilities[capability_name].proficiency = Min(10000, @ + 100),
                                !.capabilities[capability_name].practice_count = @ + 1], now)
                /\ id_last' = [op |-> "practice_capability", arg |-> <<capability_name>>, ret |-> <<TRUE>>]
                /\ UNCHANGED outsideID

\* IdentityCore.add_relationship
AddRelationship ==
    \E entity_id \in {"u1"} :
        LET rels == identity.relationships
            relationship == [trust_level |-> 5000, familiarity |-> 0,
                             interaction_count |-> 0]
        IN  /\ identity' = _update_integrity(
                            [identity EXCEPT !.relationships =
                            [k \in DOMAIN rels \cup {entity_id} |->
                            IF k = entity_id THEN relationship ELSE rels[k]]], now)
            /\ id_last' = [op |-> "add_relationship", arg |-> <<entity_id>>, ret |-> <<>>]
            /\ UNCHANGED outsideID

\* IdentityCore.update_relationship
UpdateRelationship ==
    \E entity_id \in {"u1", "none"}, trust_delta \in {1000}, familiarity_delta \in {-1000} :
        IF entity_id \notin DOMAIN identity.relationships
        THEN /\ identity' = identity
             /\ id_last' = [op |-> "update_relationship", arg |-> <<entity_id>>, ret |-> <<FALSE>>]
             /\ UNCHANGED outsideID
        ELSE /\ identity.relationships[entity_id].interaction_count < MaxUses
             /\ /\ identity' = _update_integrity(
                                [identity EXCEPT
                                !.relationships[entity_id].trust_level =
                                Max(0, Min(10000, @ + trust_delta)),
                                !.relationships[entity_id].familiarity =
                                Max(0, Min(10000, @ + familiarity_delta)),
                                !.relationships[entity_id].interaction_count = @ + 1], now)
                /\ id_last' = [op |-> "update_relationship", arg |-> <<entity_id>>, ret |-> <<TRUE>>]
                /\ UNCHANGED outsideID

\* The memories passed to add_memory, created when they are added.
MemoryArgs ==
    {[title |-> "a", importance |-> 3000, tags |-> {"x"}],
     [title |-> "b", importance |-> 9000, tags |-> {"y"}]}

\* IdentityCore.add_memory
AddMemory ==
    \E a \in MemoryArgs :
        LET memory == [title |-> a.title, importance |-> a.importance,
                       tags |-> a.tags, last_recalled |-> now]
            appended == Append(identity.autobiographical_memories, memory)
            kept == IF Len(appended) > MemoryLimit
                    THEN SubSeq(SortedMemoriesDesc(appended, FALSE), 1, MemoryLimit)
                    ELSE appended
        IN  /\ identity' = _update_integrity(
                            [identity EXCEPT !.autobiographical_memories = kept], now)
            /\ id_last' = [op |-> "add_memory", arg |-> <<a.title>>, ret |-> <<>>]
            /\ UNCHANGED outsideID

\* IdentityCore.recall_memory: without tags the stored list itself is sorted
\* in place; with tags a filtered copy is sorted.  The first `limit` of the
\* sorted memories get last_recalled = now, in the stored list as well (the
\* objects are shared; the model tells them apart by their fields).  There
\* is no call of _update_integrity.
RecallMemory ==
    \E tags \in {{}, {"x"}}, limit \in {1} :
        LET stored == identity.autobiographical_memories
            memories == IF tags # {}
                        THEN SelectSeq(stored, LAMBDA m : m.tags \cap tags # {})
                        ELSE stored
            sorted == SortedMemoriesDesc(memories, TRUE)
            n == Min(limit, Len(sorted))
            order == IF tags # {} THEN stored ELSE sorted
            restamped == [i \in 1..Len(order) |->
                            IF \E j \in 1..n : sorted[j] = order[i]
                            THEN [order[i] EXCEPT !.last_recalled = now]
                            ELSE order[i]]
        IN  /\ identity' = [identity EXCEPT !.autobiographical_memories = restamped]
            /\ id_last' = [op |-> "recall_memory", arg |-> <<tags, limit>>,
                           ret |-> [i \in 1..n |-> [sorted[i] EXCEPT !.last_recalled = now]]]
            /\ UNCHANGED outsideID

(***************************************************************************)
(* A caller that feeds get_mode a constant value                           *)
(***************************************************************************)
\* The caller settles on the value vsp for all its later get_mode calls.
HoldInputCall(vsp) ==
    /\ IsNone(held_input)
    /\ held_input' = Some([vsp |-> vsp, start |-> current_mode])
    /\ UNCHANGED <<vspVars, pspVars, raaVars, idVars, cdpVars>>

HoldInput == \E vsp \in VspInputs : HoldInputCall(vsp)

\* get_mode with any value, before the caller has settled on one.
GetModeFree == IsNone(held_input) /\ GetMode

\* get_mode with the value the caller has settled on.
GetModeHeld == ~IsNone(held_input) /\ GetModeCall(Val(held_input).vsp)

(***************************************************************************)
(* CatalystDeliberationProtocol (sam/core/cdp.py)                          *)
(*                                                                         *)
(* A session id is "cdp_" and the clock reading, so the reading stands for *)
(* the id.  Of a packet the fields that an operation reads or writes are   *)
(* kept; of a step its depth and iteration.  The clock does not advance    *)
(* within a call.                                                          *)
(***************************************************************************)
outsideCDP == <<vspVars, pspVars, raaVars, idVars, envVars>>

CDPStatus == {"pending", "active", "completed", "failed", "timeout"}

\* The defaults of time_limit_seconds (in ms) and resource_cap_mb.
time_limit_ms == 300000
resource_cap_mb == 1024

CdpNoCall == [op |-> "none", arg |-> <<>>, ret |-> <<>>]

CDPInit ==
    /\ active_sessions = <<>>
    /\ deliberation_history = <<>>
    /\ cdp_last = CdpNoCall

\* resource_usage["memory_mb"] of the step _execute_step builds at a depth.
memory_mb(depth) == 50 + depth * 10

_should_terminate(elapsed) == elapsed > time_limit_ms

\* The steps the inner loop of execute_deliberation appends at one depth: it
\* stops after the first step whose memory exceeds the cap of the packet.
StepsAtDepth(packet, depth) ==
    IF _should_terminate(0) \/ max_iterations = 0
    THEN <<>>
    ELSE IF memory_mb(depth) > packet.resources_cap
         THEN <<[depth |-> depth, iteration |-> 0]>>
         ELSE [i \in 1..max_iterations |-> [depth |-> depth, iteration |-> i - 1]]

\* The steps of both loops of execute_deliberation, depths 1..upto.
RECURSIVE StepsUpTo(_, _)
StepsUpTo(packet, upto) ==
    IF upto <= 0 \/ _should_terminate(0)
    THEN <<>>
    ELSE StepsUpTo(packet, upto - 1) \o StepsAtDepth(packet, upto)

\* The depth and resources_cap given to start_deliberation: None or a value;
\* `depth or self.max_depth` takes the default for None and for 0.
DepthArgs == {None, Some(1)}
CapArgs == {None, Some(55)}

OrDefault(arg, default) == IF IsNone(arg) \/ Val(arg) = 0 THEN default ELSE Val(arg)

\* CatalystDeliberationProtocol.start_deliberation
StartDeliberationCall(depth, resources_cap) ==
    LET session_id == now
        packet == [id |-> session_id,
                   depth |-> OrDefault(depth, max_depth),
                   resources_cap |-> OrDefault(resources_cap, resource_cap_mb),
                   created_at |-> now,
                   status |-> "active"]
        ids == DOMAIN active_sessions \cup {session_id}
    IN  /\ session_id \in DOMAIN active_sessions
           \/ Cardinality(DOMAIN active_sessions) < MaxSessions
        /\ active_sessions' = [s \in ids |-> IF s = session_id THEN packet
                                             ELSE active_sessions[s]]
        /\ deliberation_history' = [s \in ids |-> IF s = session_id THEN <<>>
                                                  ELSE deliberation_history[s]]
        /\ cdp_last' = [op |-> "start_deliberation", arg |-> <<depth, resources_cap>>,
                        ret |-> <<session_id>>]
        /\ UNCHANGED outsideCDP

StartDeliberation ==
    \E depth \in DepthArgs, resources_cap \in CapArgs :
        StartDeliberationCall(depth, resources_cap)

\* The session ids a caller passes: those it was given and one it was not.
SessionArgs == DOMAIN active_sessions \cup {MaxNow + 1}

\* CatalystDeliberationProtocol.execute_deliberation with _execute_step and
\* _generate_result.  Nothing in the try block raises for arguments of the
\* declared types, so the except branch (status FAILED) is not taken.
ExecuteDeliberationCall(session_id) ==
    IF session_id \notin DOMAIN active_sessions
    THEN /\ cdp_last' = [op |-> "execute_deliberation", arg |-> <<session_id>>,
                         ret |-> <<"ValueError">>]
         /\ UNCHANGED <<active_sessions, deliberation_history>>
         /\ UNCHANGED outsideCDP
    ELSE LET packet == active_sessions[session_id]
             steps == deliberation_history[session_id] \o StepsUpTo(packet, packet.depth)
         IN  /\ Len(steps) <= MaxSteps
             /\ deliberation_history' = [deliberation_history EXCEPT ![session_id] = steps]
             /\ active_sessions' = [active_sessions EXCEPT ![session_id].status = "completed"]
             /\ cdp_last' = [op |-> "execute_deliberation", arg |-> <<session_id>>,
                             ret |-> <<[steps_count |-> Len(steps),
                                        status |-> packet.status]>>]
             /\ UNCHANGED outsideCDP

ExecuteDeliberation == \E session_id \in SessionArgs : ExecuteDeliberationCall(session_id)

\* CatalystDeliberationProtocol.cancel_session
CancelSessionCall(session_id) ==
    /\ active_sessions' =
          IF session_id \in DOMAIN active_sessions
          THEN [active_sessions EXCEPT ![session_id].status = "failed"]
          ELSE active_sessions
    /\ cdp_last' = [op |-> "cancel_session", arg |-> <<session_id>>,
                    ret |-> <<session_id \in DOMAIN active_sessions>>]
    /\ UNCHANGED deliberation_history
    /\ UNCHANGED outsideCDP

CancelSession == \E session_id \in SessionArgs : CancelSessionCall(session_id)

\* CatalystDeliberationProtocol.get_session_status
GetSessionStatus ==
    \E session_id \in SessionArgs :
        /\ cdp_last' = [op |-> "get_session_status", arg |-> <<session_id>>,
                        ret |-> IF session_id \notin DOMAIN active_sessions
                                THEN None
                                ELSE Some([status |-> active_sessions[session_id].status,
                                           depth |-> active_sessions[session_id].depth,
                                           steps_count |-> Len(deliberation_history[session_id]),
                                           elapsed |-> now - active_sessions[session_id].created_at])]
        /\ UNCHANGED <<active_sessions, deliberation_history>>
        /\ UNCHANGED outsideCDP

\* CatalystDeliberationProtocol.get_stats
CdpGetStats ==
    LET WithStatus(st) == {s \in DOMAIN active_sessions : active_sessions[s].status = st}
    IN  /\ cdp_last' = [op |-> "get_stats", arg |-> <<>>,
                        ret |-> <<[active_sessions |-> Cardinality(WithStatus("active")),
                                   completed_sessions |-> Cardinality(WithStatus("completed")),
                                   total_sessions |-> Cardinality(DOMAIN active_sessions)]>>]
        /\ UNCHANGED <<active_sessions, deliberation_history>>
        /\ UNCHANGED outsideCDP

Init ==
    VSPInit /\ PSPInit /\ RAAInit /\ IdentityInit /\ CDPInit /\ held_input = None

(***************************************************************************)
(* PSP: the public methods as actions                                      *)
(***************************************************************************)
AddWorkingMemoryItemCall(item) ==
    /\ Len(wm_log) < MaxAdds
    /\ psp' = add_working_memory_item(psp, item)
    /\ wm_log' = Append(wm_log, item)
    /\ psp_last' = [op |-> "add_working_memory_item", arg |-> item.id, ret |-> "ok"]
    /\ UNCHANGED outsidePSP

AddWorkingMemoryItem == \E item \in LoadItems : AddWorkingMemoryItemCall(item)
AddWorkingMemoryItemAny == \E item \in Items : AddWorkingMemoryItemCall(item)

UpdateMomentumCall(a) ==
    /\ IsNone(a.vsp_value) \/ psp.momentum.vsp_trend.rolling_avg < MaxRollingAvg
    /\ psp' = update_momentum(psp, a)
    /\ psp_last' = [op |-> "update_momentum", arg |-> "", ret |-> "ok"]
    /\ UNCHANGED <<wm_log, outsidePSP>>

UpdateMomentum == \E a \in LoadMomentumArgs : UpdateMomentumCall(a)
UpdateMomentumCore == \E a \in CoreMomentumArgs : UpdateMomentumCall(a)
UpdateMomentumAny == \E a \in MomentumArgs : UpdateMomentumCall(a)

SetModeCall(mode) ==
    LET r == set_mode(psp, mode)
    IN  /\ psp' = r[2]
        /\ psp_last' = [op |-> "set_mode", arg |-> mode, ret |-> r[1]]
        /\ UNCHANGED <<wm_log, outsidePSP>>

SetMode == \E mode \in ModeArgs : SetModeCall(mode)
SetModeCore == \E mode \in CoreModeArgs : SetModeCall(mode)

SignPspCall(private_key) ==
    LET r == sign_psp(psp, private_key)
    IN  /\ psp' = r[2]
        /\ psp_last' = [op |-> "sign_psp", arg |-> private_key, ret |-> r[1]]
        /\ UNCHANGED <<wm_log, outsidePSP>>

SignPsp == \E private_key \in KeyArgs : SignPspCall(private_key)

VerifySignature ==
    /\ psp_last' = [op |-> "verify_signature", arg |-> "",
                    ret |-> IF verify_signature(psp) THEN "true" ELSE "false"]
    /\ UNCHANGED psp
    /\ UNCHANGED <<wm_log, outsidePSP>>

VerifyChecksums ==
    LET r == verify_checksums(psp)
    IN  /\ psp' = r[2]
        /\ psp_last' = [op |-> "verify_checksums", arg |-> "",
                        ret |-> IF r[1] THEN "true" ELSE "false"]
        /\ UNCHANGED <<wm_log, outsidePSP>>

\* to_dict builds a dictionary and leaves the packet alone.
ToDict ==
    /\ psp_last' = [op |-> "to_dict", arg |-> "", ret |-> "ok"]
    /\ UNCHANGED psp
    /\ UNCHANGED <<wm_log, outsidePSP>>

\* The packet is serialized with to_dict, the dictionary is possibly altered
\* where it is stored, and the program goes on with the packet that
\* from_dict builds from it.
FromDictCall(alt) ==
    /\ psp' = from_dict(Alter(to_dict(psp), alt))
    /\ psp_last' = [op |-> "from_dict", arg |-> alt, ret |-> "ok"]
    /\ UNCHANGED <<wm_log, outsidePSP>>

FromDict == \E alt \in Alterations : FromDictCall(alt)
FromDictCore == \E alt \in CoreAlterations : FromDictCall(alt)

\* The program goes on with the copy that clone returns.
Clone ==
    /\ psp' = clone(psp)
    /\ psp_last' = [op |-> "clone", arg |-> "", ret |-> "ok"]
    /\ UNCHANGED <<wm_log, outsidePSP>>

\* add_working_memory_item appends the caller's own item object (psp.py:134):
\* the caller, still holding it, changes its type tag; no method of the
\* packet runs.
MutateHeldItem ==
    \E i \in 1..Len(psp.working_memory) :
        /\ psp' = [psp EXCEPT !.working_memory[i].type =
                       IF @ = "context" THEN "qualia_ref" ELSE "context"]
        /\ psp_last' = [op |-> "mutate_held_item", arg |-> "", ret |-> "ok"]
        /\ UNCHANGED <<wm_log, outsidePSP>>

(***************************************************************************)
(* Specifications                                                          *)
(***************************************************************************)
\* The mode machine of the engine against the clock.
ModeNext ==
    \/ Tick
    \/ GetMode
    \/ Reset

ModeSpec == Init /\ [][ModeNext]_vars

\* The mode machine fed any values first and one constant value from some
\* moment on.
ConstantInputNext ==
    \/ Tick
    \/ GetModeFree
    \/ HoldInput
    \/ GetModeHeld

ConstantInputSpec == Init /\ [][ConstantInputNext]_vars

\* The history under changes of the configuration.
HysteresisNext ==
    \/ ComputeVsp
    \/ UpdateSchemaBasis
    \/ SetHysteresis

HysteresisSpec == Init /\ [][HysteresisNext]_vars

\* The perturbation computation of the engine: history, basis, trend.
VSPNext ==
    \/ ComputeVsp
    \/ GetVspTrend
    \/ GetStats
    \/ UpdateSchemaBasis
    \/ Reset

VSPSpec == Init /\ [][VSPNext]_vars

\* The engine as a whole, with a few inputs per operation: the mode machine,
\* the clock, the perturbation computation and the stored reference together.
CoreVspInputs == {1000, 4000, 7000}

CoreComputeArgs ==
    {a \in NoLensingArgs : a.input_vector \in {<<>>, <<3, 4>>, <<4, 3>>, <<0, 0, 5>>}}

GetModeCore == \E vsp \in CoreVspInputs : GetModeCall(vsp)

ComputeVspCore == \E a \in CoreComputeArgs : ComputeVspCall(a)

EngineNext ==
    \/ Tick
    \/ GetModeCore
    \/ ComputeVspCore
    \/ GetVspTrend
    \/ UpdateSchemaBasis
    \/ Reset

EngineSpec == Init /\ [][EngineNext]_vars

\* The working memory filled with items of every weight; the other calls
\* leave it alone.
WMNext ==
    \/ AddWorkingMemoryItemAny
    \/ SetModeCore
    \/ VerifyChecksums

WMSpec == Init /\ [][WMNext]_vars

\* The packet's mode set to every argument, valid or not, on packets with
\* items and momentum.
PSPModeNext ==
    \/ AddWorkingMemoryItem
    \/ UpdateMomentumCore
    \/ SetMode

PSPModeSpec == Init /\ [][PSPModeNext]_vars

\* The momentum updated with every combination of arguments.
MomentumNext ==
    \/ UpdateMomentumAny
    \/ SetModeCore
    \/ VerifyChecksums

MomentumSpec == Init /\ [][MomentumNext]_vars

\* The packet changed, signed and verified, never reloaded.
SignNext ==
    \/ AddWorkingMemoryItem
    \/ UpdateMomentumCore
    \/ SetModeCore
    \/ SignPsp
    \/ VerifySignature

SignSpec == Init /\ [][SignNext]_vars

\* The phase scheduler against the clock.
RaaNext ==
    \/ Tick
    \/ AdvanceCycle
    \/ GetPhaseProgress
    \/ RaaReset

RaaSpec == Init /\ [][RaaNext]_vars

\* The phase scheduler called again and again while time passes, never
\* reset: the clock keeps moving and advance_cycle keeps being called.
RaaLiveNext ==
    \/ Tick
    \/ TickOn
    \/ AdvanceCycle

RaaLiveSpec ==
    /\ Init
    /\ [][RaaLiveNext]_vars
    /\ WF_vars(Tick \/ TickOn)
    /\ WF_vars(AdvanceCycle)

\* The identity core driven through the operations that change its content.
IdentityNext ==
    \/ Tick
    \/ AddValue
    \/ ReinforceValue
    \/ UpdatePersonalityTrait
    \/ AddCapability
    \/ PracticeCapability
    \/ AddRelationship
    \/ UpdateRelationship
    \/ AddMemory
    \/ RecallMemory

IdentitySpec == Init /\ [][IdentityNext]_vars

\* The packet driven through all its public methods.
PSPNext ==
    \/ AddWorkingMemoryItem
    \/ UpdateMomentumCore
    \/ SetModeCore
    \/ SignPsp
    \/ VerifySignature
    \/ VerifyChecksums
    \/ ToDict
    \/ FromDictCore
    \/ Clone

PSPSpec == Init /\ [][PSPNext]_vars

\* The packet stored and loaded again, the stored form possibly altered.
PSPLoadNext ==
    \/ AddWorkingMemoryItem
    \/ UpdateMomentum
    \/ SetMode
    \/ VerifyChecksums
    \/ ToDict
    \/ FromDict
    \/ Clone

PSPLoadSpec == Init /\ [][PSPLoadNext]_vars

\* The packet with a caller that also writes to an item it has added.
PSPHeldNext ==
    \/ AddWorkingMemoryItem
    \/ UpdateMomentumCore
    \/ SetModeCore
    \/ VerifyChecksums
    \/ MutateHeldItem

PSPHeldSpec == Init /\ [][PSPHeldNext]_vars

(***************************************************************************)
(* Properties of the packet (PSPSpec, PSPLoadSpec, PSPHeldSpec)            *)
(***************************************************************************)
\* The stored checksums are the digests of the current content.
ChecksumsCurrent(p) ==
    /\ p.checksums.kv = kv_data(p)
    /\ p.checksums.wm = wm_data(p)

\* C1: after every public method of a packet built by construction returns
\* (add_working_memory_item, update_momentum, set_mode with a valid or an
\* invalid mode, sign_psp, verify_signature, verify_checksums, to_dict,
\* from_dict, clone), the stored kv and wm checksums are the digests of the
\* current content, and verify_checksums() returns true.
C1_ChecksumsAlwaysCurrent ==
    /\ ChecksumsCurrent(psp)
    /\ verify_checksums(psp)[1]
    /\ psp_last.op = "verify_checksums" => psp_last.ret = "true"

\* A signed packet in Flow with a full working memory and a rhythm
\* signature, on which verify_checksums has just returned true.
C1_Witness ==
    /\ psp_last.op = "verify_checksums" /\ psp_last.ret = "true"
    /\ psp.mode = "flow"
    /\ Len(psp.working_memory) = MaxItems
    /\ psp.momentum.raa_rhythm_signature = "r"
    /\ ~IsNone(psp.sign.sig)

\* C2: a packet loaded with from_dict from a serialized form in which a
\* content field (mode, a working-memory item, a momentum field, instance id,
\* schema hash) was altered and the checksums were not fails
\* verify_checksums().
C2_AlteredLoadFailsVerification ==
    [][\A alt \in ContentAlterations :
          FromDictCall(alt) => ~verify_checksums(psp')[1]]_vars

\* C3: verify_checksums() leaves the stored checksums as they were, whether
\* or not they match the content, so a packet that fails verification fails
\* it again on the next call.
C3_VerifyChecksumsIsPure ==
    [][VerifyChecksums
          => /\ psp'.checksums = psp.checksums
             /\ ~verify_checksums(psp)[1] => ~verify_checksums(psp')[1]]_vars

(***************************************************************************)
(* Properties of the mode machine (ModeSpec)                               *)
(***************************************************************************)
\* The debounce window is over: debounce_ms or more since the last change.
WindowOver == now - last_mode_change >= hysteresis.debounce_ms

InFlapFreeZone(mode, v) ==
    \/ mode = "flow" /\ Thresholds.flow_to_idle < v /\ v < Thresholds.idle_to_flow
    \/ mode = "deep" /\ Thresholds.deep_to_flow < v /\ v < Thresholds.flow_to_deep
    \/ mode = "crisis" /\ Thresholds.crisis_to_deep < v /\ v < Thresholds.deep_to_crisis

\* C5: with the debounce window over, get_mode(v) leaves the mode unchanged
\* in Flow for flow_to_idle < v < idle_to_flow, in Deep for deep_to_flow < v <
\* flow_to_deep and in Crisis for crisis_to_deep < v < deep_to_crisis; a call
\* takes Flow to Idle only for v <= flow_to_idle.
C5_FlapFreeZones ==
    [][\A v \in VspInputs :
          GetModeCall(v)
          => /\ (WindowOver /\ InFlapFreeZone(current_mode, v))
                    => (current_mode' = current_mode /\ last'.ret = <<current_mode>>)
             /\ (current_mode = "flow" /\ current_mode' = "idle")
                    => v <= Thresholds.flow_to_idle]_vars

\* Deep, the window over, and a call with 0.55 has returned Deep.
C5_Witness ==
    /\ last.op = "get_mode" /\ last.arg = <<5500>> /\ last.ret = <<"deep">>
    /\ current_mode = "deep"
    /\ hysteresis.debounce_ms > 0
    /\ WindowOver

RECURSIVE ModeSequence(_, _, _, _, _)
\* The modes returned by get_mode called with each value of vs in turn, the
\* clock standing at current_time.
ModeSequence(vs, mode, last_change, current_time, debounce_ms) ==
    IF vs = <<>> THEN <<>>
    ELSE LET r == get_mode_result(mode, last_change, current_time, debounce_ms,
                                  Head(vs))
         IN  <<r[1]>> \o ModeSequence(Tail(vs), r[1], r[2], current_time, debounce_ms)

\* C6: with the default thresholds and debounce_ms = 0, an engine in Idle
\* that is called with 0.1, 0.4, 0.7, 0.9 in that order returns Idle, Flow,
\* Deep, Crisis in that order.
C6_ModeScenario ==
    (hysteresis.debounce_ms = 0 /\ current_mode = "idle")
    => ModeSequence(<<1000, 4000, 7000, 9000>>, current_mode, last_mode_change,
                    now, hysteresis.debounce_ms)
       = <<"idle", "flow", "deep", "crisis">>

\* With debounce_ms = 0 and the clock never advanced, the call with 0.9 has
\* just taken the engine into Crisis.
C6_Witness ==
    /\ hysteresis.debounce_ms = 0
    /\ now = 0
    /\ last.op = "get_mode" /\ last.arg = <<9000>> /\ last.ret = <<"crisis">>
    /\ current_mode = "crisis"

Adjacent(m1, m2) ==
    \/ {m1, m2} = {"idle", "flow"}
    \/ {m1, m2} = {"flow", "deep"}

\* C7: a mode change made by one get_mode call is between adjacent modes
\* (Idle/Flow, Flow/Deep) or has Crisis as its source or target; from Idle a
\* value with flow_to_deep <= v < deep_to_crisis leaves the mode Idle and
\* from Deep a value v < idle_to_flow leaves the mode Deep.
C7_OneRung ==
    [][\A v \in VspInputs :
          GetModeCall(v)
          => /\ current_mode' # current_mode
                    => \/ Adjacent(current_mode, current_mode')
                       \/ current_mode = "crisis"
                       \/ current_mode' = "crisis"
             /\ (/\ current_mode = "idle"
                 /\ Thresholds.flow_to_deep <= v
                 /\ v < Thresholds.deep_to_crisis) => current_mode' = "idle"
             /\ (current_mode = "deep" /\ v < Thresholds.idle_to_flow)
                    => current_mode' = "deep"]_vars

\* Idle, the window over, and a call with 0.7 (target Deep) has returned Idle.
C7_Witness ==
    /\ last.op = "get_mode" /\ last.arg = <<7000>> /\ last.ret = <<"idle">>
    /\ current_mode = "idle"
    /\ WindowOver

\* The cascade target of a value that is not in the Crisis range.
C8_Cascade(v) ==
    IF v >= Thresholds.flow_to_deep THEN "deep"
    ELSE IF v >= Thresholds.idle_to_flow THEN "flow"
    ELSE "idle"

\* C8: with the debounce window over, get_mode(v) takes a non-Crisis mode to
\* Crisis exactly when v >= deep_to_crisis; it takes Crisis to another mode
\* exactly when v <= crisis_to_deep, and then to the cascade target of v.
C8_CrisisCase ==
    [][\A v \in VspInputs :
          (GetModeCall(v) /\ WindowOver)
          => /\ current_mode # "crisis"
                    => (current_mode' = "crisis" <=> v >= Thresholds.deep_to_crisis)
             /\ current_mode = "crisis"
                    => /\ current_mode' # "crisis" <=> v <= Thresholds.crisis_to_deep
                       /\ current_mode' # "crisis" => current_mode' = C8_Cascade(v)]_vars

\* Crisis, the window over, and a call with 0.75 has returned Crisis.
C8_Witness ==
    /\ last.op = "get_mode" /\ last.arg = <<7500>> /\ last.ret = <<"crisis">>
    /\ current_mode = "crisis"
    /\ hysteresis.debounce_ms > 0
    /\ WindowOver

\* C9: a get_mode call whose target is the current mode, or whose transition
\* the hysteresis gate rejects, returns the current mode and leaves the mode
\* and last_mode_change unchanged; last_mode_change is set, to the time of
\* the call, only by a call that changes the mode.
C9_RejectionFrame ==
    [][\A v \in VspInputs :
          GetModeCall(v)
          => LET target == _get_target_mode(v)
                 rejected == target = current_mode
                             \/ ~_should_transition(current_mode, v, target)
             IN  /\ rejected => /\ current_mode' = current_mode
                                /\ last_mode_change' = last_mode_change
                                /\ last'.ret = <<current_mode>>
                 /\ last_mode_change' # last_mode_change
                        => /\ current_mode' # current_mode
                           /\ last_mode_change' = now
                           /\ last'.ret = <<current_mode'>>]_vars

\* Flow entered some time ago, the window over, and a call with 0.25 (target
\* Idle, rejected) has returned Flow without moving the timestamp.
C9_Witness ==
    /\ last.op = "get_mode" /\ last.arg = <<2500>> /\ last.ret = <<"flow">>
    /\ current_mode = "flow"
    /\ hysteresis.debounce_ms > 0
    /\ WindowOver
    /\ last_mode_change < now

\* C11: on a freshly constructed engine with the default debounce of 1000 ms,
\* the first get_mode(v) call, made before the clock has moved, with
\* idle_to_flow <= v < flow_to_deep, takes the engine from Idle to Flow and
\* returns Flow.
C11_FirstCallTransitions ==
    [][\A v \in VspInputs :
          (/\ GetModeCall(v)
           /\ last = NoCall
           /\ hysteresis.debounce_ms = 1000
           /\ now = last_mode_change
           /\ Thresholds.idle_to_flow <= v /\ v < Thresholds.flow_to_deep)
          => /\ current_mode' = "flow"
             /\ last'.ret = <<"flow">>]_vars

(***************************************************************************)
(* Properties of the perturbation computation (VSPSpec)                    *)
(***************************************************************************)
\* A step of compute_vsp: every operation writes last, so a step that leaves
\* last.op = "compute_vsp" and changes the state is a call of compute_vsp, and
\* last.arg holds its observation and its explicit reference.
ComputeVspStep == last'.op = "compute_vsp" /\ vspVars' # vspVars

C12_EveryCallRecorded ==
    [][(ComputeVspStep /\ Len(last'.arg[1]) > 0 /\ last'.ret[1] = "return")
          => /\ Len(vsp_history')
                  = Min(Len(vsp_history) + 1, hysteresis.rolling_window)
             /\ vsp_history = <<>>
                  => get_stats(current_mode', vsp_history', hysteresis.trend_decay,
                               now', last_mode_change').vsp_history_length = 1]_vars

\* The reference a compute_vsp call with arguments a compares against: the
\* one passed, else the one stored (None when there is neither).
ReferenceOf(a) ==
    IF ~IsNone(a.schema_basis) THEN a.schema_basis ELSE schema_basis

\* C13: the value returned by compute_vsp lies in [0,1] and so does every
\* entry of the history, for every observation, reference and lensing input;
\* when the observation equals the reference and no lensing input is given
\* the value is 0.
C13_RangeAndIdentity ==
    [][/\ ComputeVspStep
          => /\ last'.ret[1] = "return"
                  => (0 <= last'.ret[2] /\ last'.ret[2] <= 10000)
             /\ \A i \in 1..Len(vsp_history') :
                    0 <= vsp_history'[i] /\ vsp_history'[i] <= 10000
       /\ \A a \in NoLensingArgs :
             (/\ ComputeVspCall(a)
              /\ Len(a.input_vector) > 0
              /\ ReferenceOf(a) = Some(a.input_vector))
             => last'.ret = <<"return", 0>>]_vars

\* The last k entries of a sequence (all of it when it is shorter).
LastN(s, k) == SubSeq(s, Len(s) - Min(Len(s), k) + 1, Len(s))

\* The compute_vsp call of this step recorded its value: it returned, with a
\* non-empty observation and a reference passed or stored.
RecordingStep ==
    /\ ComputeVspStep
    /\ last'.ret[1] = "return"
    /\ Len(last'.arg[1]) > 0
    /\ ~(IsNone(last'.arg[2]) /\ IsNone(schema_basis))

\* C14: the history never holds more than rolling_window entries; a
\* compute_vsp call that records a value leaves the last rolling_window
\* entries of the old history followed by the new value, in that order (the
\* oldest entry is the one dropped), and any other compute_vsp call leaves
\* the history as it was.
C14_RollingHistory ==
    [][/\ Len(vsp_history) <= hysteresis.rolling_window
       /\ Len(vsp_history') <= hysteresis.rolling_window
       /\ RecordingStep
             => vsp_history' = LastN(Append(vsp_history, last'.ret[2]),
                                     hysteresis.rolling_window)
       /\ (ComputeVspStep /\ ~RecordingStep)
             => vsp_history' = vsp_history]_vars

\* The history is full, its entries differ, and the newest is the value the
\* last compute_vsp call returned.
C14_Witness ==
    /\ last.op = "compute_vsp" /\ last.ret[1] = "return"
    /\ Len(last.arg[1]) > 0
    /\ Len(vsp_history) = hysteresis.rolling_window
    /\ vsp_history[Len(vsp_history)] = last.ret[2]
    /\ vsp_history[1] # vsp_history[Len(vsp_history)]

(***************************************************************************)
(* Properties of the engine as a whole (EngineSpec)                        *)
(***************************************************************************)
\* C15: update_schema_basis(b) stores b as the reference and changes nothing
\* else: the current mode, last_mode_change and the history are as before.
C15_UpdateSchemaBasisFrame ==
    [][\A basis \in BasisVectors :
          UpdateSchemaBasisCall(basis)
          => /\ schema_basis' = Some(basis)
             /\ current_mode' = current_mode
             /\ last_mode_change' = last_mode_change
             /\ vsp_history' = vsp_history]_vars

\* A reference has just replaced another one in an engine that left Idle
\* after construction and has a full history.
C15_Witness ==
    /\ last.op = "update_schema_basis"
    /\ schema_basis = Some(<<0, 0>>)
    /\ current_mode = "deep"
    /\ last_mode_change > 0
    /\ Len(vsp_history) = hysteresis.rolling_window

\* reset() leaves the engine in Idle with an empty history and no reference.
ResetLeavesFreshState ==
    Reset => /\ current_mode' = "idle"
             /\ vsp_history' = <<>>
             /\ schema_basis' = None

\* C16 as stated: from any reachable state reset() leaves the engine in Idle
\* with an empty history and no stored reference, and the next call, if it is
\* a compute_vsp without an explicit reference, returns 0.8, and if it is
\* get_vsp_trend, returns 0.
C16_ResetThenAnyCompute ==
    [][/\ ResetLeavesFreshState
       /\ (last.op = "reset" /\ ComputeVspStep /\ IsNone(last'.arg[2]))
             => last'.ret = <<"return", 8000>>
       /\ (last.op = "reset" /\ GetVspTrend) => last'.ret = <<0>>]_vars

\* C16 amended: as C16, for a compute_vsp with a non-empty observation (with
\* an empty observation compute_vsp returns 0 whatever the state).
C16_ResetState ==
    [][/\ ResetLeavesFreshState
       /\ (/\ last.op = "reset" /\ ComputeVspStep
           /\ IsNone(last'.arg[2]) /\ Len(last'.arg[1]) > 0)
             => last'.ret = <<"return", 8000>>
       /\ (last.op = "reset" /\ GetVspTrend) => last'.ret = <<0>>]_vars

\* With the default debounce an engine that is in Idle since 500 ms after
\* construction was reset then (no transition is evaluated in the first
\* second); a compute_vsp without a reference has since returned 0.8.
C16_Witness ==
    /\ hysteresis.debounce_ms = 1000
    /\ now = 500 /\ last_mode_change = now
    /\ current_mode = "idle" /\ vsp_history = <<>> /\ IsNone(schema_basis)
    /\ last.op = "compute_vsp"
    /\ Len(last.arg[1]) > 0 /\ IsNone(last.arg[2])
    /\ last.ret = <<"return", 8000>>

Range(s) == {s[i] : i \in 1..Len(s)}

WeightOf(item) == total_weight(item.weight)

\* No two entries of a sequence of items have the same total_weight.
PairwiseDistinctWeights(s) ==
    \A i, j \in 1..Len(s) : i # j => WeightOf(s[i]) # WeightOf(s[j])

\* The k members of S with the highest total_weight (all of S when it has
\* fewer), for S of pairwise distinct weights.
HighestByWeight(S, k) ==
    CHOOSE H \in SUBSET S :
        /\ Cardinality(H) = Min(k, Cardinality(S))
        /\ \A x \in H : \A y \in S \ H : WeightOf(x) > WeightOf(y)

\* C18: after any sequence of add_working_memory_item calls the working
\* memory holds at most the capacity; when the items added have pairwise
\* distinct total_weight it holds exactly the capacity-many highest by
\* total_weight of all the items added (all of them while fewer were added).
C18_KeepsHighestWeights ==
    /\ Len(psp.working_memory) <= MaxItems
    /\ PairwiseDistinctWeights(wm_log)
          => /\ Len(psp.working_memory) = Min(Len(wm_log), MaxItems)
             /\ Range(psp.working_memory) = HighestByWeight(Range(wm_log), MaxItems)

\* More items than the capacity were added, of pairwise distinct weights, and
\* the first one added is among those evicted.
C18_Witness ==
    /\ Len(wm_log) > MaxItems
    /\ PairwiseDistinctWeights(wm_log)
    /\ Len(psp.working_memory) = MaxItems
    /\ wm_log[1] \notin Range(psp.working_memory)
    /\ psp_last.op = "add_working_memory_item"

\* A sequence of items in order of non-increasing total_weight.
NonIncreasingWeights(s) ==
    \A i \in 1..(Len(s) - 1) : WeightOf(s[i]) >= WeightOf(s[i + 1])

\* C19: once an add_working_memory_item call has brought the item count above
\* the capacity, the working-memory list is in order of non-increasing
\* total_weight; as long as no call has, the list is the items added, in
\* insertion order.
C19_OrderOfWorkingMemory ==
    /\ Len(wm_log) > MaxItems => NonIncreasingWeights(psp.working_memory)
    /\ Len(wm_log) <= MaxItems => psp.working_memory = wm_log

\* The item added last, on top of a full list, is the heaviest and now
\* stands first.
C19_Witness ==
    /\ psp_last.op = "add_working_memory_item"
    /\ Len(wm_log) = MaxItems + 1
    /\ PairwiseDistinctWeights(wm_log)
    /\ psp.working_memory[1] = wm_log[Len(wm_log)]

(***************************************************************************)
(* Properties of set_mode (PSPModeSpec)                                    *)
(***************************************************************************)
\* C20: set_mode(m) with m one of idle, flow, deep, crisis sets the packet
\* mode to m; with any other m it raises and leaves the mode, the working
\* memory, the momentum and both checksums unchanged; the packet mode is one
\* of the four modes in every reachable state.
C20_SetModeValidates ==
    [][/\ psp.mode \in PSPModes
       /\ psp'.mode \in PSPModes
       /\ \A m \in ModeArgs :
             SetModeCall(m)
             => /\ m \in PSPModes
                    => (psp'.mode = m /\ psp_last'.ret = "ok")
                /\ m \notin PSPModes
                    => /\ psp_last'.ret = "raise"
                       /\ psp'.mode = psp.mode
                       /\ psp'.working_memory = psp.working_memory
                       /\ psp'.momentum = psp.momentum
                       /\ psp'.checksums = psp.checksums]_vars

\* set_mode has refused an invalid mode on a packet in Deep with items in
\* its working memory and a momentum that is not the default one.
C20_Witness ==
    /\ psp_last.op = "set_mode"
    /\ psp_last.arg \notin PSPModes /\ psp_last.ret = "raise"
    /\ psp.mode = "deep"
    /\ psp.working_memory # <<>>
    /\ psp.momentum # Momentum

(***************************************************************************)
(* Properties of the momentum (MomentumSpec)                               *)
(***************************************************************************)
\* C21: an update_momentum call that supplies vsp_value = v replaces
\* rolling_avg by decay * rolling_avg + (1 - decay) * v (to the rounding of
\* the two products); from a fresh packet one call with v = 0.5 gives
\* 0.5 * (1 - 0.95) = 0.025; a call without vsp_value leaves rolling_avg
\* unchanged.
C21_RollingAverage ==
    [][\A a \in MomentumArgs :
          UpdateMomentumCall(a)
          => LET t == psp.momentum.vsp_trend
                 t1 == psp'.momentum.vsp_trend
             IN  /\ t1.decay = t.decay
                 /\ IsNone(a.vsp_value) => t1.rolling_avg = t.rolling_avg
                 /\ ~IsNone(a.vsp_value)
                       => /\ Abs(10000 * t1.rolling_avg
                                 - (t.decay * t.rolling_avg
                                    + (10000 - t.decay) * Val(a.vsp_value))) < 20000
                          /\ (t.rolling_avg = 0 /\ t.decay = 9500
                              /\ Val(a.vsp_value) = 5000) => t1.rolling_avg = 250]_vars

\* Two calls with v = 0.5 from a fresh packet: the average stands at
\* 0.95 * 0.025 + 0.025.
C21_Witness ==
    /\ psp_last.op = "update_momentum"
    /\ psp.momentum.vsp_trend.rolling_avg = 487

(***************************************************************************)
(* Properties of checksums and signature (PSPSpec)                         *)
(***************************************************************************)
\* C22: add_working_memory_item leaves the kv checksum as it was; set_mode
\* and update_momentum leave the wm checksum as it was; sign_psp leaves both;
\* set_mode to a valid mode other than the current one changes the kv
\* checksum.
C22_IndependentDigests ==
    [][/\ \A item \in LoadItems :
             AddWorkingMemoryItemCall(item) => psp'.checksums.kv = psp.checksums.kv
       /\ \A mode \in CoreModeArgs :
             SetModeCall(mode)
             => /\ psp'.checksums.wm = psp.checksums.wm
                /\ (mode \in PSPModes /\ mode # psp.mode)
                      => psp'.checksums.kv # psp.checksums.kv
       /\ \A a \in CoreMomentumArgs :
             UpdateMomentumCall(a) => psp'.checksums.wm = psp.checksums.wm
       /\ \A private_key \in KeyArgs :
             SignPspCall(private_key) => psp'.checksums = psp.checksums]_vars

\* A signed packet with items in its working memory whose mode has just been
\* set to another one.
C22_Witness ==
    /\ psp_last.op = "set_mode" /\ psp_last.ret = "ok"
    /\ psp.mode = "flow"
    /\ psp.working_memory # <<>>
    /\ ~IsNone(psp.sign.sig)
    /\ ~verify_signature(psp)

\* C23: verify_signature() returns false on a packet without a signature and
\* always returns a boolean; sign_psp(k) with a valid private key k stores the
\* public key derived from k, and a verify_signature() call that follows it
\* immediately returns true.
C23_SignThenVerify ==
    [][/\ VerifySignature
          => /\ psp_last'.ret \in {"true", "false"}
             /\ IsNone(psp.sign.sig) => psp_last'.ret = "false"
             /\ (psp_last.op = "sign_psp" /\ psp_last.ret = "ok")
                   => psp_last'.ret = "true"
       /\ \A private_key \in ValidKeys :
             SignPspCall(private_key)
             => /\ psp_last'.ret = "ok"
                /\ psp'.sign.pub = Some(PublicKey(private_key))
                /\ ~IsNone(psp'.sign.sig)]_vars

\* verify_signature has returned true on a packet in Flow with items in its
\* working memory.
C23_Witness ==
    /\ psp_last.op = "verify_signature" /\ psp_last.ret = "true"
    /\ psp.mode = "flow"
    /\ psp.working_memory # <<>>
    /\ psp.sign.pub = Some(PublicKey("k1"))

(***************************************************************************)
(* Properties of the signature under changes (SignSpec)                    *)
(***************************************************************************)
\* What the mutating methods change.
Content(p) == <<p.mode, p.working_memory, p.momentum>>

\* The packet carries a signature that verifies.
SignedValid(p) == ~IsNone(p.sign.sig) /\ verify_signature(p)

\* The step is a call of one of the mutating methods.
MutatingCall ==
    /\ psp_last'.op \in {"set_mode", "update_momentum", "add_working_memory_item"}
    /\ pspVars' # pspVars

\* On a packet whose signature verifies, a mutating call that changes the
\* mode, the working memory or the momentum makes verify_signature() false,
\* and one that changes nothing keeps it true.
C24_ChangeBreaksSignature ==
    /\ (SignedValid(psp) /\ MutatingCall /\ Content(psp') # Content(psp))
          => ~verify_signature(psp')
    /\ (SignedValid(psp) /\ MutatingCall /\ Content(psp') = Content(psp))
          => verify_signature(psp')

\* C24 as stated: as above, and a signature that does not verify keeps
\* failing until the packet is signed again.
C24_InvalidUntilSignedAgain ==
    [][/\ C24_ChangeBreaksSignature
       /\ (/\ ~IsNone(psp.sign.sig) /\ ~verify_signature(psp)
           /\ psp_last'.op # "sign_psp")
             => ~verify_signature(psp')]_vars

\* C24 amended: as above, and the signature of a signed packet verifies
\* exactly when mode, working memory and momentum are those that were signed,
\* so it fails for as long as they differ and verifies again once the packet
\* is signed again or the signed content is back.
C24_SignatureCoversContent ==
    [][/\ C24_ChangeBreaksSignature
       /\ ~IsNone(psp.sign.sig)
             => (verify_signature(psp)
                   <=> Content(psp) = Content(Val(psp.sign.sig).data))]_vars

\* verify_signature has returned false on a packet that was signed in
\* another mode than it has now.
C24_Witness ==
    /\ psp_last.op = "verify_signature" /\ psp_last.ret = "false"
    /\ ~IsNone(psp.sign.sig)
    /\ Val(psp.sign.sig).data.mode # psp.mode
    /\ Val(psp.sign.sig).data.working_memory = psp.working_memory

(***************************************************************************)
(* Properties of serialization (PSPSpec)                                   *)
(***************************************************************************)
\* C25: for every packet reachable through the public methods, the packet
\* that from_dict builds from its to_dict (clone does the same) has the same
\* mode, instance id, timestamp, working-memory list, momentum, kv checksum
\* and wm checksum, and verify_checksums() is true on it.
C25_RoundTrip ==
    [][(FromDictCall("none") \/ Clone)
          => /\ psp'.mode = psp.mode
             /\ psp'.instance_id = psp.instance_id
             /\ psp'.timestamp = psp.timestamp
             /\ psp'.working_memory = psp.working_memory
             /\ psp'.momentum = psp.momentum
             /\ psp'.checksums.kv = psp.checksums.kv
             /\ psp'.checksums.wm = psp.checksums.wm
             /\ verify_checksums(psp')[1]]_vars

\* A signed packet in Flow with a full working memory and a rhythm signature
\* has just been rebuilt from its dictionary.
C25_Witness ==
    /\ psp_last.op = "from_dict" /\ psp_last.arg = "none"
    /\ psp.mode = "flow"
    /\ Len(psp.working_memory) = MaxItems
    /\ psp.momentum.raa_rhythm_signature = "r"
    /\ ~IsNone(psp.sign.sig)

\* The logical content the digests are taken over.
LogicalContent(p) ==
    <<p.psp_version, p.timestamp, p.instance_id, p.schema_hash, p.momentum,
      p.mode, p.working_memory>>

\* The checksums of a packet constructed directly with the content of p.
ChecksumsOfContent(p) ==
    PSP__init__([p EXCEPT !.checksums = [kv |-> "", wm |-> ""],
                          !.sign = [sig |-> None, pub |-> None]]).checksums

\* C26: the checksums of a packet are those of any packet with the same
\* version, timestamp, instance id, schema hash, momentum, mode and ordered
\* working-memory list, whatever calls produced it: they are the checksums of
\* a packet constructed with that content, and a packet whose content is
\* that of the untouched packet again has the untouched packet's checksums.
C26_ChecksumsOfContentOnly ==
    /\ psp.checksums = ChecksumsOfContent(psp)
    /\ LogicalContent(psp) = LogicalContent(NewPSP)
          => psp.checksums = NewPSP.checksums

\* A packet that was signed while its content was another one and is back
\* at the content of the untouched packet after set_mode(idle).
C26_Witness ==
    /\ psp_last.op = "set_mode" /\ psp_last.arg = "idle" /\ psp_last.ret = "ok"
    /\ LogicalContent(psp) = LogicalContent(NewPSP)
    /\ ~IsNone(psp.sign.sig)
    /\ Val(psp.sign.sig).data.mode = "flow"

(***************************************************************************)
(* RAACycle: pacing of the phases                                          *)
(***************************************************************************)
\* The periods of the four modes with base_cycle_ms = 1000, in ms.
PeriodOfMode == [idle |-> 2000, flow |-> 1000, deep |-> 500, crisis |-> 200]

\* The order of the phases.
PhaseAfter == [reflect |-> "abstract", abstract |-> "act", act |-> "reflect"]

\* C27: advance_cycle(mode) compares the time elapsed since the last phase
\* change with the period of the mode (base_cycle_ms times 2.0, 1.0, 0.5, 0.2
\* for idle, flow, deep, crisis).  If elapsed >= period it moves to exactly
\* the next phase in the order Reflect, Abstract, Act, Reflect, however large
\* the elapsed time, sets last_phase_change to the call time and adds 1 to
\* cycle_count; if elapsed < period it leaves the three unchanged.  It
\* returns the resulting phase.
C27_AdvanceCycle ==
    [][\A mode \in Mode :
         AdvanceCycleCall(mode) =>
            /\ IF now - last_phase_change >= PeriodOfMode[mode]
               THEN /\ current_phase' = PhaseAfter[current_phase]
                    /\ last_phase_change' = now
                    /\ cycle_count' = cycle_count + 1
               ELSE UNCHANGED <<current_phase, last_phase_change, cycle_count>>
            /\ raa_last'.ret = current_phase']_vars

\* advance_cycle("crisis") called 3000 ms (fifteen periods) after
\* construction has moved from Reflect to Abstract, one step only.
C27_Witness ==
    /\ raa_last.op = "advance_cycle" /\ raa_last.arg = "crisis"
    /\ raa_last.ret = "abstract"
    /\ cycle_count = 1
    /\ last_phase_change = 3000

\* C28: get_phase_progress() returns min(1, elapsed / flow period), a value
\* in [0, 1], whatever mode advance_cycle was last given, and changes no
\* scheduler state; a progress of 1 does not mean the phase advances: an
\* advance_cycle("idle") made after a progress of 1 and less than the idle
\* period (twice the flow period) after the last phase change keeps the phase.
C28_PhaseProgress ==
    [][/\ GetPhaseProgress =>
            /\ raa_last'.ret =
                  Min(10000, ((now - last_phase_change) * 10000) \div PeriodOfMode.flow)
            /\ raa_last'.ret \in 0..10000
            /\ UNCHANGED <<current_phase, last_phase_change, cycle_count>>
       /\ ( /\ raa_last.op = "get_phase_progress" /\ raa_last.ret = 10000
            /\ now - last_phase_change < 2 * PeriodOfMode.flow
            /\ AdvanceCycleCall("idle") )
            => /\ raa_last'.ret = current_phase
               /\ UNCHANGED <<current_phase, last_phase_change, cycle_count>>]_vars

\* A progress of 1 returned 1500 ms after a phase change made by
\* advance_cycle, one and a half flow periods and less than an idle period.
C28_Witness ==
    /\ raa_last.op = "get_phase_progress" /\ raa_last.ret = 10000
    /\ cycle_count > 0
    /\ now - last_phase_change = 1500

\* C29: from any reachable scheduler state, reset() sets the phase to
\* Reflect, cycle_count to 0 and last_phase_change to the reset time, and the
\* advance_cycle call that follows it less than one period of its mode later
\* returns Reflect.
C29_Reset ==
    [][/\ RaaReset =>
            /\ current_phase' = "reflect"
            /\ cycle_count' = 0
            /\ last_phase_change' = now
       /\ \A mode \in Mode :
            ( /\ raa_last.op = "reset"
              /\ now - last_phase_change < PeriodOfMode[mode]
              /\ AdvanceCycleCall(mode) )
            => /\ raa_last'.ret = "reflect"
               /\ current_phase' = "reflect"
               /\ cycle_count' = 0]_vars

\* A scheduler reset at 1500 ms and then asked to advance in Idle one second
\* later: the call returned Reflect.
C29_Witness ==
    /\ raa_last.op = "advance_cycle" /\ raa_last.arg = "idle"
    /\ raa_last.ret = "reflect"
    /\ cycle_count = 0
    /\ last_phase_change = 1500
    /\ now = 2500

\* C30: the phase cycle has no terminal state.  While time keeps increasing
\* and advance_cycle keeps being called with any modes and without a reset,
\* the phase changes only to the next one in the order Reflect, Abstract,
\* Act, Reflect, and every phase is left for the next one again and again:
\* the n-th phase is always followed by the (n+1)-th, for every n below
\* MaxCycles.
C30_NoTerminalPhase ==
    /\ [][current_phase' # current_phase
             => current_phase' = PhaseAfter[current_phase]]_vars
    /\ \A n \in 0..(MaxCycles - 1) : \A p \in RAAPhase :
          (cycle_count = n /\ current_phase = p)
             ~> (cycle_count = n + 1 /\ current_phase = PhaseAfter[p])

\* The seventh phase change, more than 3000 ms after construction: Abstract
\* entered for the third time, after Reflect, Abstract, Act twice over.
C30_Witness ==
    /\ cycle_count = 7
    /\ current_phase = "abstract"
    /\ raa_last.op = "advance_cycle" /\ raa_last.ret = "abstract"

(***************************************************************************)
(* VSPEngine: the trend                                                    *)
(***************************************************************************)
RECURSIVE DecayPow(_, _)
\* decay to the power i.
DecayPow(decay, i) == IF i = 0 THEN 10000 ELSE Mul(DecayPow(decay, i - 1), decay)

\* sum(h_i * decay^i) / sum(decay^i), i = 0 for the newest entry of h.
WeightedMean(h, decay) ==
    LET n == Len(h)
    IN  SumSeq([i \in 1..n |-> h[n + 1 - i] * DecayPow(decay, i - 1)])
           \div SumSeq([i \in 1..n |-> DecayPow(decay, i - 1)])

EmotionalArgs ==
    {a \in ComputeArgs : /\ a.emotional_lensing = Some(<<10000, 5000>>)
                         /\ IsNone(a.schema_basis)}

\* The same call without any lensing input.
WithoutLensing(a) ==
    [a EXCEPT !.emotional_lensing = None, !.causal_context = None,
              !.temporal_context = None]

\* C32: for the same observation and stored reference, compute_vsp with an
\* emotional lensing vector of positive valence and arousal returns a
\* strictly greater value than compute_vsp without lensing input, also when
\* the observation equals the reference.
C32_LensingRaisesValue ==
    [][\A a \in EmotionalArgs :
         ( /\ ~IsNone(schema_basis)
           /\ Len(a.input_vector) > 0
           /\ ComputeVspCall(a) )
         => last'.ret[2] > compute_vsp(WithoutLensing(a), schema_basis, vsp_history,
                                       hysteresis.rolling_window).value]_vars

(***************************************************************************)
(* IdentityCore: the integrity hash                                        *)
(***************************************************************************)
\* C33: after every public operation that changes the identity content
\* (add_value, reinforce_value, update_personality_trait, add_capability,
\* practice_capability, add_relationship, update_relationship, add_memory,
\* recall_memory) integrity_hash equals the hash recomputed from the current
\* content.
C33_IntegrityHashCurrent ==
    [][identity' # identity
          => identity'.integrity_hash = integrity_data(identity')]_vars

(***************************************************************************)
(* PSP: ties in the pruning of the working memory (WMSpec)                 *)
(***************************************************************************)
\* The items of s that have the total_weight w, in their order in s.
OfWeight(s, w) == SelectSeq(s, LAMBDA x : WeightOf(x) = w)

\* s is an initial part of t.
IsPrefix(s, t) == Len(s) <= Len(t) /\ s = SubSeq(t, 1, Len(s))

\* The least total_weight in a non-empty sequence of items.
LeastWeight(s) ==
    CHOOSE w \in {WeightOf(s[i]) : i \in 1..Len(s)} :
        \A i \in 1..Len(s) : w <= WeightOf(s[i])

\* C34: pruning breaks ties by a stable rule.  After add_working_memory_item
\* the items of each total_weight are the previous ones followed by the new
\* item, in that order, without those evicted; what is evicted is the last in
\* that order among the items of the lowest weight; so a new item whose
\* weight is no more than the lowest weight of a full list is itself the one
\* evicted.
C34_StableTies ==
    [][\A item \in Items :
         AddWorkingMemoryItemCall(item) =>
            LET before == Append(psp.working_memory, item)
                after == psp'.working_memory
                weights == {WeightOf(before[i]) : i \in 1..Len(before)}
            IN  /\ \A w \in weights :
                      /\ IsPrefix(OfWeight(after, w), OfWeight(before, w))
                      /\ OfWeight(after, w) # OfWeight(before, w)
                            => w = LeastWeight(before)
                /\ ( /\ Len(psp.working_memory) = MaxItems
                     /\ WeightOf(item) = LeastWeight(before) )
                      => \A w \in weights :
                            OfWeight(after, w) = OfWeight(psp.working_memory, w)]_vars

\* A third item whose weight ties with the lighter of the two retained: the
\* older one of the tie is kept, the new one is gone.
C34_Witness ==
    /\ psp_last.op = "add_working_memory_item"
    /\ Len(wm_log) = MaxItems + 1
    /\ Len(psp.working_memory) = MaxItems
    /\ WeightOf(wm_log[Len(wm_log)]) = WeightOf(psp.working_memory[MaxItems])
    /\ wm_log[Len(wm_log)] \notin Range(psp.working_memory)
    /\ wm_log[MaxItems] = psp.working_memory[MaxItems]

(***************************************************************************)
(* PSP: update_momentum, field by field (MomentumSpec)                     *)
(***************************************************************************)
\* C35: update_momentum assigns each momentum field the caller supplies (the
\* drift vector, the emotional state, the rhythm signature, an empty list or
\* an empty string included) and leaves every field not supplied unchanged;
\* it never changes the mode, the working memory, the instance id, the
\* timestamp or the signature.
C35_UpdateMomentumFields ==
    [][\A a \in MomentumArgs :
         UpdateMomentumCall(a) =>
            LET m == psp.momentum
                m1 == psp'.momentum
            IN  /\ m1.schema_drift_vector =
                      IF IsNone(a.schema_drift) THEN m.schema_drift_vector
                      ELSE Val(a.schema_drift)
                /\ m1.emotional_state_vector =
                      IF IsNone(a.emotional_state) THEN m.emotional_state_vector
                      ELSE Val(a.emotional_state)
                /\ m1.raa_rhythm_signature =
                      IF IsNone(a.raa_signature) THEN m.raa_rhythm_signature
                      ELSE Val(a.raa_signature)
                /\ IsNone(a.vsp_value) => m1.vsp_trend = m.vsp_trend
                /\ psp'.mode = psp.mode
                /\ psp'.working_memory = psp.working_memory
                /\ psp'.instance_id = psp.instance_id
                /\ psp'.timestamp = psp.timestamp
                /\ psp'.sign = psp.sign]_vars

(***************************************************************************)
(* RAACycle: phase and counter (RaaSpec)                                   *)
(***************************************************************************)
\* The phase that belongs to a value of the counter.
PhaseOfCount(n) ==
    IF n % 3 = 0 THEN "reflect" ELSE IF n % 3 = 1 THEN "abstract" ELSE "act"

\* C36: in every scheduler state reached from construction or reset through
\* advance_cycle calls the phase is determined by the counter: Reflect when
\* cycle_count mod 3 is 0, Abstract when it is 1, Act when it is 2;
\* cycle_count decreases only through reset and grows by at most 1 in an
\* advance_cycle call.
C36_PhaseOfCounter ==
    /\ [](current_phase = PhaseOfCount(cycle_count))
    /\ [][/\ cycle_count' < cycle_count => RaaReset
          /\ \A mode \in RaaModeArgs :
                AdvanceCycleCall(mode)
                   => cycle_count' \in {cycle_count, cycle_count + 1}
          /\ cycle_count' \in {0, cycle_count, cycle_count + 1}]_vars

\* Two phase changes, the second one 3000 ms after construction: Act.
C36_Witness ==
    /\ raa_last.op = "advance_cycle"
    /\ cycle_count = 2
    /\ current_phase = "act"
    /\ last_phase_change = 3000

(***************************************************************************)
(* VSPEngine: constant input (ConstantInputSpec)                           *)
(***************************************************************************)
\* C37: no oscillation under constant input.  With the default thresholds,
\* from any starting mode, when every get_mode call receives the same value
\* (at any times, with any debounce), the mode changes at most once and then
\* stays: every change made while the input is held leaves the mode the run
\* started in, and lands in the target mode of the value.
C37_NoOscillation ==
    [][(~IsNone(held_input) /\ current_mode' # current_mode)
          => /\ current_mode = Val(held_input).start
             /\ current_mode' # Val(held_input).start
             /\ current_mode' = _get_target_mode(Val(held_input).vsp)]_vars

\* A run that was in Crisis when the caller settled on 0.1 has dropped to
\* Idle in one change, with the debounce of 1000 ms.
C37_Witness ==
    /\ ~IsNone(held_input)
    /\ Val(held_input).start = "crisis"
    /\ Val(held_input).vsp = 1000
    /\ current_mode = "idle"
    /\ last.op = "get_mode"
    /\ hysteresis.debounce_ms = 1000

(***************************************************************************)
(* VSPEngine: computation and mode control are separate (EngineSpec)       *)
(***************************************************************************)
\* A step made by the engine operation op: the clock stands still, the call
\* record names op and something of the engine has changed.
EngineCallStep(op) == now' = now /\ last'.op = op /\ vspVars' # vspVars

\* C38: compute_vsp and get_vsp_trend never change the current mode or the
\* time of the last mode change; get_mode never changes the history or the
\* stored reference, so get_mode(v) does not record v.
C38_SeparateConcerns ==
    [][/\ (EngineCallStep("compute_vsp") \/ EngineCallStep("get_vsp_trend"))
            => UNCHANGED <<current_mode, last_mode_change>>
       /\ EngineCallStep("get_mode") => UNCHANGED <<vsp_history, schema_basis>>]_vars

\* A get_mode call that changed the mode while the history, recorded by
\* earlier compute_vsp calls, does not hold the value it was given.
C38_Witness ==
    /\ last.op = "get_mode"
    /\ current_mode # "idle"
    /\ last_mode_change = now
    /\ Len(vsp_history) > 0
    /\ last.arg[1] \notin Range(vsp_history)
    /\ ~IsNone(schema_basis)

(***************************************************************************)
(* VSPEngine: the history under set_hysteresis (HysteresisSpec)            *)
(***************************************************************************)
\* C39: after any sequence of compute_vsp, update_schema_basis and
\* set_hysteresis calls the history is no longer than the rolling_window of
\* the configuration installed, also right after set_hysteresis has installed
\* a smaller rolling_window and after the next compute_vsp.
C39_HistoryWithinWindow == Len(vsp_history) <= hysteresis.rolling_window

(***************************************************************************)
(* CatalystDeliberationProtocol: the status of a session (CdpSpec)         *)
(***************************************************************************)
CdpNext ==
    \/ Tick
    \/ StartDeliberation
    \/ ExecuteDeliberation
    \/ CancelSession
    \/ GetSessionStatus
    \/ CdpGetStats

CdpSpec == Init /\ [][CdpNext]_vars

\* C40: the statuses FAILED and COMPLETED are terminal: once a session is
\* FAILED (set by cancel_session) no later execute_deliberation,
\* cancel_session, get_session_status or get_stats call changes its status,
\* and a COMPLETED session is never set back to ACTIVE or to FAILED.
C40_TerminalStatuses ==
    [][\A s \in DOMAIN active_sessions :
          (/\ active_sessions[s].status \in {"failed", "completed"}
           /\ cdp_last'.op # "start_deliberation")
          => active_sessions'[s].status = active_sessions[s].status]_vars

====
